---- MODULE Spec2Model ----
(***************************************************************************)
(* Model of the token / request / pagination layer of pykada:              *)
(*   VerkadaTokenManager        (src/pykada/api_tokens.py)                 *)
(*   VerkadaRequestManager      (src/pykada/verkada_requests.py)           *)
(*   iterate_paginated_results  (src/pykada/verkada_requests.py,           *)
(*                               src/pykada/helpers.py)                    *)
(*   wrapper operations and validators (src/pykada/access_control.py,      *)
(*       access_control/access_door_exceptions.py, core_command, helix,    *)
(*       workplace.py, cameras.py, helpers.py) and BaseClient              *)
(*       (verkada_client.py)                                               *)
(*   get_token() called from two threads, and one get_all_audit_logs       *)
(*   iteration with the clock running                                      *)
(* Times are in seconds.  The HTTP retry loop is the one urllib3 runs for  *)
(* the Retry object that _send_request configures.                         *)
(***************************************************************************)
EXTENDS Integers, Sequences, FiniteSets, TLC

VARIABLES
    now,                      \* the wall clock, datetime.now(utc)
    token_lifetime_minutes,   \* VerkadaTokenManager._token_lifetime_minutes
    token,                    \* VerkadaTokenManager._token
    token_expiry,             \* VerkadaTokenManager._token_expiry
    acquired_at,              \* history: the time of the last successful fetch
    gt,                       \* the last get_token() call: its time and outcome
    max_retries,              \* VerkadaRequestManager.max_retries
    rq_pc,                    \* position of the _send_request call
    rq,                       \* the _send_request call in progress / just ended
    pg_pc,                    \* position of the pagination generator
    pg,                       \* the generator's locals and its history
    wc,                       \* the last call of a wrapper operation or validator
    th,                       \* threads inside get_token(): position and locals
    fetches_done              \* the (token, expiry) pairs _fetch_new_token returned

vars == <<now, token_lifetime_minutes, token, token_expiry, acquired_at, gt,
          max_retries, rq_pc, rq, pg_pc, pg, wc, th, fetches_done>>

tokVars == <<now, token_lifetime_minutes, token, token_expiry, acquired_at, gt>>
reqVars == <<max_retries, rq_pc, rq>>
pagVars == <<pg_pc, pg>>
wrapVars == <<wc>>
concVars == <<th, fetches_done>>

(***************************************************************************)
(* Bounds of the model                                                     *)
(***************************************************************************)
MaxTime == 300          \* the clock stops advancing here
TickSeconds == 150      \* granularity of the clock
MaxRetries == 3         \* max_retries is drawn from 0..MaxRetries
MaxPages == 3           \* page fetches of one iteration
PageSizeMargin == 2     \* page_size is drawn from -margin..200+margin

(***************************************************************************)
(* Python values                                                           *)
(***************************************************************************)
None == "None"
NoExpiry == -1          \* _token_expiry = None

\* Token values the token endpoint hands out: non-empty strings (an empty
\* token would be falsy in get_token's `if self._token and ...`)
Tokens == {"t1", "t2"}
Lifetimes == {25, 30}   \* token_lifetime_minutes configurations (default 30)

\* self._refresh_buffer_seconds = 25 * 60
refresh_buffer_seconds == 25 * 60

(***************************************************************************)
(* VerkadaTokenManager                                                     *)
(***************************************************************************)

\* What the token endpoint call of _fetch_new_token can end in: a 2xx
\* response whose JSON body holds the key, a RequestException (network
\* error or non-2xx status), or a body without the key / not JSON.
FetchOutcomes ==
    [kind : {"ok"}, tok : Tokens]
        \cup {[kind |-> "request_exception", tok |-> None],
              [kind |-> "bad_body", tok |-> None]}

\* `if self._token and self._token_expiry:` (truthiness of both fields)
HasCachedToken(tok, exp) == tok # None /\ tok # "" /\ exp # NoExpiry

\* Mutant of CacheValid: the boundary instant still counts as valid
CacheValid_AtBoundary(tok, exp, t) ==
    HasCachedToken(tok, exp) /\ (exp - t) >= refresh_buffer_seconds

\* Mutant of CacheValid: the refresh buffer is ignored
CacheValid_NoBuffer(tok, exp, t) ==
    HasCachedToken(tok, exp) /\ (exp - t) > 0

\* time_until_expiry = (self._token_expiry - current_time_utc).total_seconds()
\* if time_until_expiry > self._refresh_buffer_seconds: return self._token
CacheValid(tok, exp, t) ==
    HasCachedToken(tok, exp) /\ (exp - t) > refresh_buffer_seconds

\* Mutant of FetchNewToken: a body without the key yields no exception
FetchNewToken_BadBodyIgnored(f, t, lifetime) ==
    IF f.kind \in {"ok", "bad_body"}
    THEN [raised |-> None, tok |-> f.tok, exp |-> t + lifetime * 60]
    ELSE [raised |-> "RuntimeError", tok |-> None, exp |-> NoExpiry]

\* _fetch_new_token: one HTTP call; (new_token, now + lifetime) or RuntimeError
FetchNewToken(f, t, lifetime) ==
    IF f.kind = "ok"
    THEN [raised |-> None, tok |-> f.tok, exp |-> t + lifetime * 60]
    ELSE [raised |-> "RuntimeError", tok |-> None, exp |-> NoExpiry]

\* Mutant of GetTokenCall: a failed fetch restarts the lifetime of the cached
\* token
GetTokenCall_FailureCached(tok, exp, acq, t, lifetime, f) ==
    IF CacheValid(tok, exp, t)
    THEN [ret |-> tok, raised |-> None, tok |-> tok, exp |-> exp,
          acq |-> acq, calls |-> 0, fetch |-> "none"]
    ELSE LET r == FetchNewToken(f, t, lifetime) IN
         IF r.raised = None
         THEN [ret |-> r.tok, raised |-> None, tok |-> r.tok, exp |-> r.exp,
               acq |-> t, calls |-> 1, fetch |-> f.kind]
         ELSE [ret |-> None, raised |-> r.raised, tok |-> tok,
               exp |-> IF tok = None THEN exp ELSE t + lifetime * 60,
               acq |-> acq, calls |-> 1, fetch |-> f.kind]

\* get_token() on manager state (tok, exp) at time t, the token endpoint
\* answering f if it is called.  The result: the value returned or the
\* exception raised, the fields after the call, the number of
\* token-endpoint calls made and how the last of them ended.
GetTokenCall(tok, exp, acq, t, lifetime, f) ==
    IF CacheValid(tok, exp, t)
    THEN [ret |-> tok, raised |-> None, tok |-> tok, exp |-> exp,
          acq |-> acq, calls |-> 0, fetch |-> "none"]
    ELSE LET r == FetchNewToken(f, t, lifetime) IN
         IF r.raised = None
         THEN [ret |-> r.tok, raised |-> None, tok |-> r.tok, exp |-> r.exp,
               acq |-> t, calls |-> 1, fetch |-> f.kind]
         ELSE [ret |-> None, raised |-> r.raised, tok |-> tok, exp |-> exp,
               acq |-> acq, calls |-> 1, fetch |-> f.kind]

NoCall ==
    [op |-> "none", at |-> 0, ret |-> None, raised |-> None, calls |-> 0,
     fetch |-> "none"]

\* A caller invokes token_manager.get_token()
GetToken ==
    \E f \in FetchOutcomes :
        LET r == GetTokenCall(token, token_expiry, acquired_at, now,
                              token_lifetime_minutes, f) IN
        /\ token' = r.tok
        /\ token_expiry' = r.exp
        /\ acquired_at' = r.acq
        /\ gt' = [op |-> "get_token", at |-> now, ret |-> r.ret,
                  raised |-> r.raised, calls |-> r.calls, fetch |-> r.fetch]
        /\ UNCHANGED <<now, token_lifetime_minutes>>
        /\ UNCHANGED reqVars
        /\ UNCHANGED pagVars
        /\ UNCHANGED wrapVars
        /\ UNCHANGED concVars

\* Time passes: between calls, and while a request waits for its response
\* or sleeps before a retry
Tick ==
    /\ now + TickSeconds <= MaxTime
    /\ rq_pc \in {"idle", "sending"}
    /\ now' = now + TickSeconds
    /\ gt' = NoCall
    /\ UNCHANGED <<token_lifetime_minutes, token, token_expiry, acquired_at>>
    /\ UNCHANGED reqVars
    /\ UNCHANGED pagVars
    /\ UNCHANGED wrapVars
    /\ UNCHANGED concVars

(***************************************************************************)
(* get_token() called from several threads.  VerkadaTokenManager has no    *)
(* lock, and line 114, `self._token, self._token_expiry =                  *)
(* self._fetch_new_token()`, is two attribute stores, so the steps of one  *)
(* call interleave with those of another.                                  *)
(***************************************************************************)
Threads == {"thread1", "thread2"}

IdleThread == [pc |-> "idle", tok |-> None, exp |-> NoExpiry, at |-> NoExpiry]

\* Lines 99-110: the thread reads the clock and tests the cache
EnterGetToken ==
    \E t \in Threads :
        /\ th[t].pc = "idle"
        /\ th' = [th EXCEPT ![t].pc =
                    IF CacheValid(token, token_expiry, now) THEN "returned"
                    ELSE "fetching"]
        /\ UNCHANGED fetches_done
        /\ UNCHANGED tokVars
        /\ UNCHANGED reqVars
        /\ UNCHANGED pagVars
        /\ UNCHANGED wrapVars

\* The call of _fetch_new_token() at line 114 returns a pair or raises
FetchInThread ==
    \E t \in Threads, f \in FetchOutcomes :
        LET r == FetchNewToken(f, now, token_lifetime_minutes) IN
        /\ th[t].pc = "fetching"
        /\ IF r.raised = None
           THEN /\ th' = [th EXCEPT ![t] = [pc |-> "store_token", tok |-> r.tok,
                                            exp |-> r.exp, at |-> now]]
                /\ fetches_done' = fetches_done \cup {<<r.tok, r.exp>>}
           ELSE /\ th' = [th EXCEPT ![t].pc = "raised"]
                /\ UNCHANGED fetches_done
        /\ UNCHANGED tokVars
        /\ UNCHANGED reqVars
        /\ UNCHANGED pagVars
        /\ UNCHANGED wrapVars

\* Line 114, first store: self._token = <first element of the pair>
StoreToken ==
    \E t \in Threads :
        /\ th[t].pc = "store_token"
        /\ token' = th[t].tok
        /\ acquired_at' = th[t].at
        /\ th' = [th EXCEPT ![t].pc = "store_expiry"]
        /\ UNCHANGED <<now, token_lifetime_minutes, token_expiry, gt, fetches_done>>
        /\ UNCHANGED reqVars
        /\ UNCHANGED pagVars
        /\ UNCHANGED wrapVars

\* Line 114, second store: self._token_expiry = <second element>
StoreExpiry ==
    \E t \in Threads :
        /\ th[t].pc = "store_expiry"
        /\ token_expiry' = th[t].exp
        /\ th' = [th EXCEPT ![t].pc = "returned"]
        /\ UNCHANGED <<now, token_lifetime_minutes, token, acquired_at, gt, fetches_done>>
        /\ UNCHANGED reqVars
        /\ UNCHANGED pagVars
        /\ UNCHANGED wrapVars

\* get_token() has returned or raised in the thread; the thread may call again
LeaveGetToken ==
    \E t \in Threads :
        /\ th[t].pc \in {"returned", "raised"}
        /\ th' = [th EXCEPT ![t] = IdleThread]
        /\ UNCHANGED fetches_done
        /\ UNCHANGED tokVars
        /\ UNCHANGED reqVars
        /\ UNCHANGED pagVars
        /\ UNCHANGED wrapVars

(***************************************************************************)
(* VerkadaRequestManager                                                   *)
(***************************************************************************)
AUTH == "x-verkada-auth"

DEFAULT_MAX_TRIES == 3

Methods == {"get", "post", "put", "patch", "delete"}

\* requests prepares the request with method.upper()
Upper(m) ==
    CASE m = "get" -> "GET"
      [] m = "post" -> "POST"
      [] m = "put" -> "PUT"
      [] m = "patch" -> "PATCH"
      [] m = "delete" -> "DELETE"
      [] OTHER -> m

\* Retry(status_forcelist=[429, 500, 502, 503, 504],
\*       allowed_methods=["GET", "POST", "PUT", "DELETE", "PATCH"])
status_forcelist == {429, 500, 502, 503, 504}
allowed_methods == {"GET", "POST", "PUT", "DELETE", "PATCH"}
\* Retry defaults that _send_request leaves as they are:
\* respect_retry_after_header=True, RETRY_AFTER_STATUS_CODES = {413, 429, 503}
respect_retry_after_header == TRUE
RETRY_AFTER_STATUS_CODES == {413, 429, 503}

\* Response statuses the server answers with
Statuses == {200, 302, 404, 413, 429, 500, 501, 503}

\* The headers a caller passes: none, its own auth header, or the accept
\* header alone (what the bulk CSV uploads of cameras.py pass)
NoHeaders == [k \in {} |-> ""]
CallerHeaders ==
    {NoHeaders, (AUTH :> "caller-auth"), ("accept" :> "application/json")}

\* Mutant of Merge: the defaults win over the caller's headers
Merge_DefaultsWin(a, b) ==
    [k \in (DOMAIN a) \cup (DOMAIN b) |-> IF k \in DOMAIN a THEN a[k] ELSE b[k]]

\* {**a, **b}
Merge(a, b) ==
    [k \in (DOMAIN a) \cup (DOMAIN b) |-> IF k \in DOMAIN b THEN b[k] ELSE a[k]]

\* get_default_headers(), tok being what self.token_manager.get_token() returned
DefaultHeaders(tok) ==
    ("accept" :> "application/json") @@
    ("content-type" :> "application/json") @@
    (AUTH :> tok)

\* Lines 85-90 of _send_request: the merged headers, with the get_token()
\* calls they take.  f1 answers the token-endpoint call of
\* get_default_headers(), f2 that of the second get_token() (made only when
\* the merged headers hold no auth header).
BuildHeaders(tok, exp, acq, t, lifetime, headers, f1, f2) ==
    LET r1 == GetTokenCall(tok, exp, acq, t, lifetime, f1) IN
    IF r1.raised # None
    THEN [raised |-> r1.raised, headers |-> NoHeaders, last |-> r1,
          calls |-> r1.calls]
    ELSE LET merged == Merge(DefaultHeaders(r1.ret), headers) IN
         IF AUTH \notin DOMAIN merged
         THEN LET r2 == GetTokenCall(r1.tok, r1.exp, r1.acq, t, lifetime, f2) IN
              IF r2.raised # None
              THEN [raised |-> r2.raised, headers |-> NoHeaders, last |-> r2,
                    calls |-> r1.calls + r2.calls]
              ELSE [raised |-> None, headers |-> merged @@ (AUTH :> r2.ret),
                    last |-> r2, calls |-> r1.calls + r2.calls]
         ELSE [raised |-> None, headers |-> merged, last |-> r1,
               calls |-> r1.calls]

\* Mutant of IsMethodRetryable: urllib3's default allowed_methods
IsMethodRetryable_Default(method) ==
    Upper(method) \in {"DELETE", "GET", "HEAD", "OPTIONS", "PUT", "TRACE"}

\* Retry._is_method_retryable
IsMethodRetryable(method) == Upper(method) \in allowed_methods

\* Retry.is_retry(method, status_code, has_retry_after), total being the
\* retries that remain
IsRetry(method, status, has_retry_after, total) ==
    IF ~IsMethodRetryable(method) THEN FALSE
    ELSE IF status \in status_forcelist THEN TRUE
    ELSE /\ total # 0
         /\ respect_retry_after_header
         /\ has_retry_after
         /\ status \in RETRY_AFTER_STATUS_CODES

\* Mutant of IsExhausted: one retry too many
IsExhausted_Late(total) == total < -1

\* Retry.is_exhausted after increment(): a retry count fell below zero
IsExhausted(total) == total < 0

\* Mutant of RaisesForStatus: a redirect raises as well
RaisesForStatus_3xxToo(status) == 300 <= status /\ status < 600

\* Mutant of RaisesForStatus: only server errors raise
RaisesForStatus_5xxOnly(status) == 500 <= status /\ status < 600

\* response.raise_for_status(): HTTPError for 4xx and 5xx
RaisesForStatus(status) == 400 <= status /\ status < 600

IdleRequest ==
    [method |-> None, caller_headers |-> NoHeaders, headers |-> NoHeaders,
     return_json |-> TRUE, files |-> FALSE,
     total |-> 0, attempts |-> 0, status |-> 0, has_retry_after |-> FALSE,
     left |-> 0, retried |-> FALSE, all_err |-> TRUE,
     json_body |-> FALSE, exc |-> None, value |-> None]

\* A caller invokes _send_request(method, url, headers=..., return_json=...,
\* files=...): lines 85-99, up to the first attempt of session.request
SendRequest ==
    /\ rq_pc = "idle"
    /\ \E method \in Methods, headers \in CallerHeaders,
          return_json \in BOOLEAN, files \in BOOLEAN,
          f1 \in FetchOutcomes, f2 \in FetchOutcomes :
        LET h == BuildHeaders(token, token_expiry, acquired_at, now,
                              token_lifetime_minutes, headers, f1, f2)
            call == [IdleRequest EXCEPT
                        !.method = method, !.caller_headers = headers,
                        !.return_json = return_json, !.files = files]
        IN
        /\ token' = h.last.tok
        /\ token_expiry' = h.last.exp
        /\ acquired_at' = h.last.acq
        /\ gt' = [op |-> "get_token", at |-> now, ret |-> h.last.ret,
                  raised |-> h.last.raised, calls |-> h.calls,
                  fetch |-> h.last.fetch]
        /\ IF h.raised # None
           THEN /\ rq_pc' = "raised"
                /\ rq' = [call EXCEPT !.exc = h.raised]
           ELSE /\ rq_pc' = "sending"
                /\ rq' = [call EXCEPT !.headers = h.headers,
                                      !.total = max_retries]
    /\ UNCHANGED <<now, token_lifetime_minutes, max_retries>>
    /\ UNCHANGED pagVars
    /\ UNCHANGED wrapVars
    /\ UNCHANGED concVars

\* The server answers one attempt of session.request (line 111) with a
\* status, with or without a Retry-After header, with or without a JSON body:
\* urllib3 retries or hands the response back, then lines 121-134.
Respond ==
    /\ rq_pc = "sending"
    /\ \E status \in Statuses, has_retry_after \in BOOLEAN, body_is_json \in BOOLEAN :
        LET seen == [rq EXCEPT !.attempts = rq.attempts + 1,
                               !.status = status,
                               !.has_retry_after = has_retry_after,
                               !.left = rq.total,
                               !.all_err = rq.all_err /\
                                           (status = 429 \/ (500 <= status /\ status < 600))]
            \* the response session.request hands back to line 121
            got == [seen EXCEPT !.retried = FALSE, !.json_body = body_is_json]
        IN
        IF IsRetry(rq.method, status, has_retry_after, rq.total)
        THEN IF IsExhausted(rq.total - 1)
             THEN \* MaxRetryError, which requests raises as RetryError
                  /\ rq_pc' = "raised"
                  /\ rq' = [seen EXCEPT !.total = rq.total - 1,
                                        !.retried = FALSE,
                                        !.exc = "RetryError"]
             ELSE /\ rq_pc' = "sending"
                  /\ rq' = [seen EXCEPT !.total = rq.total - 1,
                                        !.retried = TRUE]
        ELSE IF RaisesForStatus(status)
             THEN /\ rq_pc' = "raised"
                  /\ rq' = [got EXCEPT !.exc = "HTTPError"]
             ELSE IF rq.return_json
                  THEN IF body_is_json
                       THEN /\ rq_pc' = "returned"
                            /\ rq' = [got EXCEPT !.value = "json"]
                       ELSE /\ rq_pc' = "raised"
                            /\ rq' = [got EXCEPT !.exc = "ValueError"]
                  ELSE /\ rq_pc' = "returned"
                       /\ rq' = [got EXCEPT !.value = "content"]
    /\ UNCHANGED tokVars
    /\ UNCHANGED max_retries
    /\ UNCHANGED pagVars
    /\ UNCHANGED wrapVars
    /\ UNCHANGED concVars

\* _send_request has returned its value or raised: the caller has the
\* outcome and the manager is ready for the next call
EndCall ==
    /\ rq_pc \in {"returned", "raised"}
    /\ rq_pc' = "idle"
    /\ rq' = IdleRequest
    /\ UNCHANGED tokVars
    /\ UNCHANGED max_retries
    /\ UNCHANGED pagVars
    /\ UNCHANGED wrapVars
    /\ UNCHANGED concVars

(***************************************************************************)
(* iterate_paginated_results (the static method of VerkadaRequestManager   *)
(* and the function of helpers.py are the same code)                       *)
(***************************************************************************)

\* `sub in s` on Python strings
Contains(s, sub) ==
    \E i \in 1..(Len(s) - Len(sub) + 1) : SubSeq(s, i, i + Len(sub) - 1) = sub

\* A dict without keys
EmptyDict == [k \in {} |-> ""]

\* Cursor values of a response: JSON null or a cursor string
CursorValues == {None, "c"}
\* Item lists of a response
PageLists == {<<>>, <<"a">>, <<"a", "b">>, <<"b", "a">>}

\* The JSON objects a page fetch returns.  A response follows one cursor
\* convention (no cursor key, next_page_token, next_page_token with
\* prev_page_token, or page_cursor) and holds lists under "items" and "data",
\* each present or not.
CursorParts ==
    {EmptyDict}
        \cup {("next_page_token" :> c) : c \in CursorValues}
        \cup {("next_page_token" :> c) @@ ("prev_page_token" :> "c") : c \in CursorValues}
        \cup {("page_cursor" :> c) : c \in CursorValues}
ItemsParts == {EmptyDict} \cup {("items" :> l) : l \in PageLists}
DataParts == {EmptyDict, ("data" :> <<"d">>)}
DictResponses ==
    {c @@ i @@ d : c \in CursorParts, i \in ItemsParts, d \in DataParts}

\* What one call of paginated_func(**params) ends in: an exception, a value
\* that is no dict, or a dict
PageOutcomes ==
    {[kind |-> "raise", body |-> EmptyDict],
     [kind |-> "nondict", body |-> EmptyDict]}
        \cup {[kind |-> "dict", body |-> r] : r \in DictResponses}

\* The keys a caller passes for items_key and next_token_key
ItemsKeyArgs == {None, "items"}
NextTokenKeyArgs == {None, "next_page_token", "page_cursor"}

\* Truthiness of an optional string (`not next_token_key`, `not items_key`)
Truthy(key) == key # None /\ key # ""

\* The only element of a one-element list
Only(S) == CHOOSE k \in S : TRUE

\* Lines 247-250: the cursor key after the inference
InferNextTokenKey(next_token_key, response) ==
    IF ~Truthy(next_token_key) /\ Cardinality(DOMAIN response) # 0
    THEN LET potential_next_token_keys ==
                 {k \in DOMAIN response : Contains(k, "token")} IN
         IF Cardinality(potential_next_token_keys) = 1
         THEN Only(potential_next_token_keys)
         ELSE next_token_key
    ELSE next_token_key

\* Lines 256-259: the items key after the inference
InferItemsKey(items_key, response) ==
    IF ~Truthy(items_key) /\ Cardinality(DOMAIN response) = 2
    THEN LET potential_items_key ==
                 {k \in DOMAIN response : ~Contains(k, "token")} IN
         IF Cardinality(potential_items_key) = 1
         THEN Only(potential_items_key)
         ELSE items_key
    ELSE items_key

\* response.get(key, default)
DictGet(response, key, default) ==
    IF key \in DOMAIN response THEN response[key] ELSE default

\* Mutant of FetchRaised: the exception is swallowed and the page retried
FetchRaised_Retry(st) == [pc |-> "fetch", exc |-> None]

\* Mutant of PageDone: the page ends one item early
PageDone_Early(idx, items) == idx >= Len(items) - 1

\* Mutant of IsLastPage: the iteration never follows a cursor
IsLastPage_Always(current_page_token) == TRUE

\* Line 242: `if not isinstance(response, dict): ... break`
NonDictResponse(st) == [pc |-> "done", exc |-> None]

\* Lines 235-239: `except Exception as e: ... raise`
FetchRaised(st) == [pc |-> "raised", exc |-> "fetch_exception"]

\* The for loop over the page's items is over (lines 271-272)
PageDone(idx, items) == idx = Len(items)

\* Line 278: `if current_page_token is None: break`
IsLastPage(current_page_token) == current_page_token = None

IdlePagination ==
    [items_key_arg |-> None, next_token_key_arg |-> None,
     items_key |-> None, next_token_key |-> None,
     current_page_token |-> None,
     last |-> "none", response |-> EmptyDict,
     items |-> <<>>, idx |-> 0, next_page_token_from_response |-> None,
     yielded |-> <<>>, fetches |-> 0, exc |-> None,
     expected |-> <<>>, saw_end |-> FALSE, all_dict |-> TRUE]

\* The consumer starts an iteration: iterate_paginated_results(paginated_func,
\* items_key=..., next_token_key=...), lines 214-225
StartIteration ==
    /\ pg_pc = "idle"
    /\ \E items_key \in ItemsKeyArgs, next_token_key \in NextTokenKeyArgs :
        pg' = [IdlePagination EXCEPT
                  !.items_key_arg = items_key, !.items_key = items_key,
                  !.next_token_key_arg = next_token_key,
                  !.next_token_key = next_token_key,
                  !.current_page_token = None]
    /\ pg_pc' = "fetch"
    /\ UNCHANGED tokVars
    /\ UNCHANGED reqVars
    /\ UNCHANGED wrapVars
    /\ UNCHANGED concVars

\* One pass of lines 230-268: the page is fetched with
\* page_token = current_page_token, and the keys are settled
FetchPage ==
    /\ pg_pc = "fetch"
    /\ pg.fetches < MaxPages
    /\ \E out \in PageOutcomes :
        LET fetched == [pg EXCEPT !.fetches = pg.fetches + 1,
                                  !.last = out.kind,
                                  !.response = out.body,
                                  !.all_dict = pg.all_dict /\ out.kind = "dict"]
            next_token_key == InferNextTokenKey(pg.next_token_key, out.body)
            items_key == InferItemsKey(pg.items_key, out.body)
        IN
        IF out.kind = "raise"
        THEN /\ pg_pc' = FetchRaised(pg).pc
             /\ pg' = [fetched EXCEPT !.exc = FetchRaised(pg).exc]
        ELSE IF out.kind = "nondict"
        THEN /\ pg_pc' = NonDictResponse(pg).pc
             /\ pg' = [fetched EXCEPT !.exc = NonDictResponse(pg).exc]
        ELSE IF ~Truthy(next_token_key)
        THEN /\ pg_pc' = "raised"
             /\ pg' = [fetched EXCEPT !.exc = "ValueError"]
        ELSE IF ~Truthy(items_key)
        THEN /\ pg_pc' = "raised"
             /\ pg' = [fetched EXCEPT !.exc = "ValueError",
                                      !.next_token_key = next_token_key]
        ELSE /\ pg_pc' = "yield"
             /\ pg' = [fetched EXCEPT
                          !.next_token_key = next_token_key,
                          !.items_key = items_key,
                          !.items = DictGet(out.body, items_key, <<>>),
                          !.idx = 0,
                          !.next_page_token_from_response =
                              DictGet(out.body, next_token_key, None),
                          !.expected = pg.expected \o
                              (IF items_key \in DOMAIN out.body
                               THEN out.body[items_key] ELSE <<>>),
                          !.saw_end =
                              \/ next_token_key \notin DOMAIN out.body
                              \/ out.body[next_token_key] = None]
    /\ UNCHANGED tokVars
    /\ UNCHANGED reqVars
    /\ UNCHANGED wrapVars
    /\ UNCHANGED concVars

\* Lines 271-272: the next item of the page goes to the consumer
YieldItem ==
    /\ pg_pc = "yield"
    /\ ~PageDone(pg.idx, pg.items)
    /\ pg' = [pg EXCEPT !.idx = pg.idx + 1,
                        !.yielded = Append(pg.yielded, pg.items[pg.idx + 1])]
    /\ UNCHANGED pg_pc
    /\ UNCHANGED tokVars
    /\ UNCHANGED reqVars
    /\ UNCHANGED wrapVars
    /\ UNCHANGED concVars

\* Lines 275-279: the page is over; the cursor decides whether another page
\* is fetched
EndPage ==
    /\ pg_pc = "yield"
    /\ PageDone(pg.idx, pg.items)
    /\ pg' = [pg EXCEPT !.current_page_token = pg.next_page_token_from_response]
    /\ pg_pc' = IF IsLastPage(pg.next_page_token_from_response)
                THEN "done" ELSE "fetch"
    /\ UNCHANGED tokVars
    /\ UNCHANGED reqVars
    /\ UNCHANGED wrapVars
    /\ UNCHANGED concVars

(***************************************************************************)
(* Wrapper operations and validators.  A call is recorded with its          *)
(* arguments, the exception it raised (None when it returned), the effects  *)
(* it had outside the process, in order, and what it handed to the request  *)
(* manager or returned.                                                     *)
(***************************************************************************)
NoWrapperCall ==
    [op |-> "none", args |-> EmptyDict, raised |-> None, effects |-> <<>>,
     out |-> EmptyDict]

\* The caller has the outcome of the wrapper call
WrapperReturn ==
    /\ wc.op # "none"
    /\ wc' = NoWrapperCall
    /\ UNCHANGED tokVars
    /\ UNCHANGED reqVars
    /\ UNCHANGED pagVars
    /\ UNCHANGED concVars

\* What a call ends in: the exception raised (None when it returned), the
\* effects it had, in order, and what it handed over
Outcome(raised, effects, out) ==
    [raised |-> raised, effects |-> effects, out |-> out]

\* `not value.strip()`: the string is empty or all blanks
Blank(s) == \A i \in 1..Len(s) : SubSeq(s, i, i) = " "

\* require_non_empty_str(value, ...), a @typechecked function of a str: the
\* exception it raises, None when it returns
RequireNonEmptyStr(value) ==
    IF value = None THEN "TypeCheckError"
    ELSE IF Blank(value) THEN "ValueError"
    ELSE None

\* Mutant of RemoveNullFields: the None fields stay
RemoveNullFields_KeepAll(obj) == obj

\* remove_null_fields(obj)
RemoveNullFields(obj) ==
    [k \in {j \in DOMAIN obj : obj[j] # None} |-> obj[k]]

\* check_user_external_id(user_id, external_id): ValueError, or the params
CheckUserExternalId(user_id, external_id) ==
    IF \/ (user_id = None /\ external_id = None)
       \/ (user_id # None /\ external_id # None)
    THEN [raised |-> "ValueError", params |-> EmptyDict]
    ELSE [raised |-> None,
          params |-> RemoveNullFields(("user_id" :> user_id) @@
                                      ("external_id" :> external_id))]

\* Optional[str] identifiers a caller passes
UserIds == {None, "u1"}
ExternalIds == {None, "e1"}

\* get_user(user_id, external_id) of core_command
GetUserCall(user_id, external_id) ==
    LET c == CheckUserExternalId(user_id, external_id) IN
    IF c.raised # None THEN Outcome(c.raised, <<>>, EmptyDict)
    ELSE Outcome(None, <<"request">>, c.params)

GetUser ==
    /\ wc.op = "none"
    /\ \E user_id \in UserIds, external_id \in ExternalIds :
        LET r == GetUserCall(user_id, external_id) IN
        wc' = [op |-> "get_user",
               args |-> [user_id |-> user_id, external_id |-> external_id],
               raised |-> r.raised, effects |-> r.effects, out |-> r.out]
    /\ UNCHANGED tokVars
    /\ UNCHANGED reqVars
    /\ UNCHANGED pagVars
    /\ UNCHANGED concVars

\* Optional[str] fields of a user a caller passes
FirstNames == {None, "John"}
Emails == {None, "j@example.com"}

\* create_user(external_id, ..., email, ..., first_name, ...) of
\* core_command: the payload of all twelve fields, without the None ones, is
\* posted; the fields not listed here are left at their default None
CreateUserCall(external_id, email, first_name) ==
    LET payload ==
            [company_name |-> None, department |-> None,
             department_id |-> None, email |-> email, employee_id |-> None,
             employee_title |-> None, employee_type |-> None,
             external_id |-> external_id, first_name |-> first_name,
             last_name |-> None, middle_name |-> None, phone |-> None]
    IN Outcome(None, <<"request">>, RemoveNullFields(payload))

CreateUser ==
    /\ wc.op = "none"
    /\ \E external_id \in ExternalIds, email \in Emails, first_name \in FirstNames :
        LET r == CreateUserCall(external_id, email, first_name) IN
        wc' = [op |-> "create_user",
               args |-> [external_id |-> external_id, email |-> email,
                         first_name |-> first_name],
               raised |-> r.raised, effects |-> r.effects, out |-> r.out]
    /\ UNCHANGED tokVars
    /\ UNCHANGED reqVars
    /\ UNCHANGED pagVars
    /\ UNCHANGED concVars

\* What get_default_api_token() ends in: RuntimeError (no default token
\* manager, or its get_token() raised) or a token
DefaultTokenOutcomes == {"RuntimeError", "t1"}

\* Mutant of UploadProfilePhotoCall: the identifiers are checked after the
\* token is fetched
UploadProfilePhotoCall_TokenFirst(user_id, external_id, overwrite, tok, photo_exists) ==
    LET c == CheckUserExternalId(user_id, external_id) IN
    IF tok = "RuntimeError"
    THEN Outcome("RuntimeError", <<"get_default_api_token">>, EmptyDict)
    ELSE IF c.raised # None
    THEN Outcome(c.raised, <<"get_default_api_token">>, EmptyDict)
    ELSE IF ~photo_exists
    THEN Outcome("FileNotFoundError", <<"get_default_api_token", "open">>,
                 EmptyDict)
    ELSE Outcome(None, <<"get_default_api_token", "open", "request">>,
                 c.params @@ ("overwrite" :> overwrite))

\* AccessControlClient.upload_profile_photo(photo_path, user_id, external_id,
\* overwrite), tok being what get_default_api_token() ends in and
\* photo_exists whether open(photo_path, 'rb') succeeds
UploadProfilePhotoCall(user_id, external_id, overwrite, tok, photo_exists) ==
    LET c == CheckUserExternalId(user_id, external_id) IN
    IF c.raised # None THEN Outcome(c.raised, <<>>, EmptyDict)
    ELSE IF tok = "RuntimeError"
    THEN Outcome("RuntimeError", <<"get_default_api_token">>, EmptyDict)
    ELSE IF ~photo_exists
    THEN Outcome("FileNotFoundError", <<"get_default_api_token", "open">>,
                 EmptyDict)
    ELSE Outcome(None, <<"get_default_api_token", "open", "request">>,
                 c.params @@ ("overwrite" :> overwrite))

UploadProfilePhoto ==
    /\ wc.op = "none"
    /\ \E user_id \in UserIds, external_id \in ExternalIds,
          overwrite \in BOOLEAN, tok \in DefaultTokenOutcomes,
          photo_exists \in BOOLEAN :
        LET r == UploadProfilePhotoCall(user_id, external_id, overwrite, tok,
                                        photo_exists) IN
        wc' = [op |-> "upload_profile_photo",
               args |-> [user_id |-> user_id, external_id |-> external_id,
                         overwrite |-> overwrite],
               raised |-> r.raised, effects |-> r.effects, out |-> r.out]
    /\ UNCHANGED tokVars
    /\ UNCHANGED reqVars
    /\ UNCHANGED pagVars
    /\ UNCHANGED concVars

\* What get_token() of the client's own token manager ends in: the client
\* was built from an explicit api_key or token_manager, whose credential is
\* not the process-wide default one
OwnTokenOutcomes == {"RuntimeError", "own-token"}

\* The methods of such a client: one that passes no headers to the request
\* manager, and upload_profile_photo
ClientMethods == {"get_access_user", "upload_profile_photo"}

\* A method of a client with its own token manager, up to the headers its
\* request manager sends (lines 85-90 of _send_request).  own and dflt are
\* what the client's token manager and get_default_api_token() end in.
ClientRequestCall(method_name, own, dflt) ==
    LET u == UploadProfilePhotoCall("u1", None, FALSE, dflt, TRUE)
        caller == IF method_name = "upload_profile_photo"
                  THEN ("accept" :> "application/json") @@ (AUTH :> dflt)
                  ELSE NoHeaders
        before == IF method_name = "upload_profile_photo"
                  THEN <<"get_default_api_token">> ELSE <<>>
    IN
    IF method_name = "upload_profile_photo" /\ u.raised # None
    THEN Outcome(u.raised, u.effects, NoHeaders)
    ELSE IF own = "RuntimeError"
    THEN Outcome("RuntimeError", before \o <<"token_manager.get_token">>,
                 NoHeaders)
    ELSE Outcome(None, before \o <<"token_manager.get_token", "request">>,
                 Merge(DefaultHeaders(own), caller))

ClientRequest ==
    /\ wc.op = "none"
    /\ \E method_name \in ClientMethods, own \in OwnTokenOutcomes,
          dflt \in DefaultTokenOutcomes :
        LET r == ClientRequestCall(method_name, own, dflt) IN
        wc' = [op |-> "client_request",
               args |-> [method_name |-> method_name, own |-> own,
                         dflt |-> dflt],
               raised |-> r.raised, effects |-> r.effects, out |-> r.out]
    /\ UNCHANGED tokVars
    /\ UNCHANGED reqVars
    /\ UNCHANGED pagVars
    /\ UNCHANGED concVars

\* `page_size < 0 or page_size > 200`
MAX_PAGE_SIZE == 200

\* An Optional[int] argument is the empty set (None) or the set of its value
PageSizeArgs ==
    {{}} \cup {{n} : n \in (0 - PageSizeMargin)..(MAX_PAGE_SIZE + PageSizeMargin)}

\* Mutant of PageSizeRejected: the two ends of the range are rejected
PageSizeRejected_Ends(page_size) ==
    \E n \in page_size : n <= 0 \/ n >= MAX_PAGE_SIZE

\* `page_size is not None and (page_size < 0 or page_size > 200)`
PageSizeRejected(page_size) ==
    \E n \in page_size : n < 0 \/ n > MAX_PAGE_SIZE

\* list(VALID_ACCESS_EVENT_TYPES_ENUM.values())
VALID_ACCESS_EVENT_TYPES ==
    {"door_opened", "door_rejected", "door_granted", "door_forced_open",
     "door_held_open", "door_tailgating", "door_crowd_detection",
     "door_tamper", "door_poi_detection", "door_initialized", "door_armed",
     "door_armed_button_pressed", "door_aux_unlock", "door_locked",
     "door_unlocked", "door_unarmed_event", "door_code_entered_event",
     "door_button_press_entered_event", "door_acu_startup",
     "door_lock_state_changed", "door_lockdown",
     "door_auxinput_change_state", "door_auxinput_held",
     "door_low_battery", "door_critical_battery",
     "door_mobile_nfc_scan_accepted", "door_mobile_nfc_scan_rejected",
     "door_user_database_corrupt", "door_keycard_entered_accepted",
     "door_keycard_entered_rejected", "door_code_entered_accepted",
     "door_code_entered_rejected", "door_remote_unlock_accepted",
     "door_remote_unlock_rejected", "door_press_to_exit_accepted",
     "door_ble_unlock_attempt_accepted",
     "door_ble_unlock_attempt_rejected", "door_acu_offline",
     "door_fire_alarm_triggered", "door_fire_alarm_released",
     "door_acu_fire_alarm_triggered", "door_acu_fire_alarm_released",
     "door_schedule_toggle", "door_acu_dpi_cut", "door_acu_dpi_short",
     "door_acu_rex_cut", "door_acu_rex_short", "door_acu_rex2_cut",
     "door_acu_rex2_short", "door_acu_auxinput_cut",
     "door_acu_auxinput_short", "door_lockdown_debounced",
     "door_lp_presented_accepted", "door_lp_presented_rejected",
     "door_apb_double_entry", "door_apb_double_exit", "all_access_granted",
     "all_access_rejected", "door_auxoutput_activated",
     "door_auxoutput_deactivated"}

\* event_type arguments: None or an empty list (the empty sequence: both
\* are falsy), valid types, a list with an unknown type
EventTypeArgs ==
    {<<>>, <<"door_opened", "door_locked">>, <<"door_opened", "door_kicked">>}

\* The elements of a list
Range(seq) == {seq[i] : i \in 1..Len(seq)}

\* AccessControlClient.get_access_events(page_size=..., event_type=...)
GetAccessEventsCall(page_size, event_type) ==
    IF event_type # <<>> /\ Range(event_type) \ VALID_ACCESS_EVENT_TYPES # {}
    THEN Outcome("ValueError", <<>>, EmptyDict)
    ELSE IF PageSizeRejected(page_size)
    THEN Outcome("ValueError", <<>>, EmptyDict)
    ELSE Outcome(None, <<"request">>, EmptyDict)

GetAccessEvents ==
    /\ wc.op = "none"
    /\ \E page_size \in PageSizeArgs, event_type \in EventTypeArgs :
        LET r == GetAccessEventsCall(page_size, event_type) IN
        wc' = [op |-> "get_access_events",
               args |-> [page_size |-> page_size, event_type |-> event_type],
               raised |-> r.raised, effects |-> r.effects, out |-> r.out]
    /\ UNCHANGED tokVars
    /\ UNCHANGED reqVars
    /\ UNCHANGED pagVars
    /\ UNCHANGED concVars

\* get_audit_logs(page_size=...) of core_command
GetAuditLogsCall(page_size) ==
    IF PageSizeRejected(page_size)
    THEN Outcome("ValueError", <<>>, EmptyDict)
    ELSE Outcome(None, <<"request">>, EmptyDict)

GetAuditLogs ==
    /\ wc.op = "none"
    /\ \E page_size \in PageSizeArgs :
        LET r == GetAuditLogsCall(page_size) IN
        wc' = [op |-> "get_audit_logs",
               args |-> [page_size |-> page_size],
               raised |-> r.raised, effects |-> r.effects, out |-> r.out]
    /\ UNCHANGED tokVars
    /\ UNCHANGED reqVars
    /\ UNCHANGED pagVars
    /\ UNCHANGED concVars

\* Optional[int] time arguments of get_all_audit_logs: {} is None, {n} is n
\* (Unix seconds on the model's clock)
AuditTimeArgs == {{}, {100}}

\* Lines 41-57 of get_audit_logs: the query parameters of the request, for a
\* call made at current_time = int(time.time()).  page_token stays in the
\* model's record when it is None; the code drops it.
AuditLogParams(start_time, end_time, page_token, page_size, current_time) ==
    [start_time |-> IF start_time = {} THEN current_time - 3600
                    ELSE Only(start_time),
     end_time |-> IF end_time = {} THEN current_time ELSE Only(end_time),
     page_token |-> page_token,
     page_size |-> page_size]

\* get_all_audit_logs(start_time, end_time): the generator of
\* iterate_paginated_results(get_audit_logs, initial_params={"start_time":
\* start_time, "end_time": end_time}, ...) is created; nothing is fetched yet
StartAllAuditLogs ==
    /\ wc.op = "none"
    /\ \E start_time \in AuditTimeArgs, end_time \in AuditTimeArgs :
        wc' = [op |-> "get_all_audit_logs",
               args |-> [start_time |-> start_time, end_time |-> end_time],
               raised |-> None, effects |-> <<>>,
               out |-> [requests |-> <<>>, current_page_token |-> None,
                        done |-> FALSE]]
    /\ UNCHANGED tokVars
    /\ UNCHANGED reqVars
    /\ UNCHANGED pagVars
    /\ UNCHANGED concVars

\* One pass of the loop of iterate_paginated_results: get_audit_logs(**params)
\* with params = the initial ones, page_size = 100 and the current page
\* token; the response names the next page token, None on the last page
FetchAuditLogsPage ==
    /\ wc.op = "get_all_audit_logs"
    /\ ~wc.out.done
    /\ Len(wc.out.requests) < MaxPages
    /\ \E next_page_token \in CursorValues :
        LET params == AuditLogParams(wc.args.start_time, wc.args.end_time,
                                     wc.out.current_page_token, 100, now)
        IN
        wc' = [wc EXCEPT
                  !.effects = Append(wc.effects, "request"),
                  !.out = [requests |-> Append(wc.out.requests, params),
                           current_page_token |-> next_page_token,
                           done |-> ~Truthy(next_page_token)]]
    /\ UNCHANGED tokVars
    /\ UNCHANGED reqVars
    /\ UNCHANGED pagVars
    /\ UNCHANGED concVars

\* `abs(end_time - start_time) > 86400`
SECONDS_PER_DAY == 86400

\* site_id arguments, and time ranges (end_time - start_time) around one day
SiteIdArgs == {"", " ", "site1"}
TimeRangeArgs == {0 - SECONDS_PER_DAY - 1, 0, SECONDS_PER_DAY, SECONDS_PER_DAY + 1}

\* abs(x)
Abs(x) == IF x < 0 THEN 0 - x ELSE x

\* WorkplaceClient.get_guest_visits(site_id, start_time, end_time,
\* page_size=...), time_range being end_time - start_time
GetGuestVisitsCall(site_id, time_range, page_size) ==
    IF site_id = "" \/ Blank(site_id)
    THEN Outcome("ValueError", <<>>, EmptyDict)
    ELSE IF Abs(time_range) > SECONDS_PER_DAY
    THEN Outcome("ValueError", <<>>, EmptyDict)
    ELSE IF PageSizeRejected(page_size)
    THEN Outcome("ValueError", <<>>, EmptyDict)
    ELSE Outcome(None, <<"request">>, EmptyDict)

GetGuestVisits ==
    /\ wc.op = "none"
    /\ \E site_id \in SiteIdArgs, time_range \in TimeRangeArgs,
          page_size \in PageSizeArgs :
        LET r == GetGuestVisitsCall(site_id, time_range, page_size) IN
        wc' = [op |-> "get_guest_visits",
               args |-> [site_id |-> site_id, time_range |-> time_range,
                         page_size |-> page_size],
               raised |-> r.raised, effects |-> r.effects, out |-> r.out]
    /\ UNCHANGED tokVars
    /\ UNCHANGED reqVars
    /\ UNCHANGED pagVars
    /\ UNCHANGED concVars

\* Arguments of search_helix_events
CameraIdsArgs == {<<>>, <<"cam1">>, <<"cam1", "">>}
EventTypeUidArgs == {"", " ", "uid"}
TimeMsArgs == 0..2
KeywordsArgs == {<<>>, <<"k">>, <<"k", " ">>}

\* HelixClient.search_helix_events(camera_ids, end_time_ms, event_type_uid,
\* flagged, keywords, start_time_ms)
SearchHelixEventsCall(camera_ids, end_time_ms, event_type_uid, keywords, start_time_ms) ==
    IF camera_ids = <<>>
    THEN Outcome("ValueError", <<>>, EmptyDict)
    ELSE IF \E i \in 1..Len(camera_ids) : RequireNonEmptyStr(camera_ids[i]) # None
    THEN Outcome("ValueError", <<>>, EmptyDict)
    ELSE IF RequireNonEmptyStr(event_type_uid) # None
    THEN Outcome("ValueError", <<>>, EmptyDict)
    ELSE IF start_time_ms <= 0
    THEN Outcome("ValueError", <<>>, EmptyDict)
    ELSE IF end_time_ms <= 0
    THEN Outcome("ValueError", <<>>, EmptyDict)
    ELSE IF start_time_ms > end_time_ms
    THEN Outcome("ValueError", <<>>, EmptyDict)
    ELSE IF \E i \in 1..Len(keywords) : RequireNonEmptyStr(keywords[i]) # None
    THEN Outcome("ValueError", <<>>, EmptyDict)
    ELSE Outcome(None, <<"request">>, EmptyDict)

SearchHelixEvents ==
    /\ wc.op = "none"
    /\ \E camera_ids \in CameraIdsArgs, end_time_ms \in TimeMsArgs,
          event_type_uid \in EventTypeUidArgs, keywords \in KeywordsArgs,
          start_time_ms \in TimeMsArgs :
        LET r == SearchHelixEventsCall(camera_ids, end_time_ms, event_type_uid,
                                       keywords, start_time_ms) IN
        wc' = [op |-> "search_helix_events",
               args |-> [camera_ids |-> camera_ids, end_time_ms |-> end_time_ms,
                         event_type_uid |-> event_type_uid,
                         keywords |-> keywords,
                         start_time_ms |-> start_time_ms],
               raised |-> r.raised, effects |-> r.effects, out |-> r.out]
    /\ UNCHANGED tokVars
    /\ UNCHANGED reqVars
    /\ UNCHANGED pagVars
    /\ UNCHANGED concVars

\* list(WEEKDAY_ENUM.values()), list(FREQUENCY_ENUM.values()),
\* list(DOOR_STATUS_ENUM.values())
WEEKDAY_VALUES == {"SU", "MO", "TU", "WE", "TH", "FR", "SA"}
FREQUENCY_VALUES == {"DAILY", "WEEKLY", "MONTHLY", "YEARLY"}
DOOR_STATUS_VALUES == {"LOCKED", "CARD_AND_CODE", "ACCESS_CONTROLLED", "UNLOCKED"}

\* The i-th character of a string
Ch(s, i) == SubSeq(s, i, i)

IsDigit(c) == c \in {"0", "1", "2", "3", "4", "5", "6", "7", "8", "9"}

\* is_valid_date: re.match(r"^\d{4}-\d{2}-\d{2}$", date_str)
IsValidDate(s) ==
    /\ Len(s) = 10
    /\ \A i \in {1, 2, 3, 4, 6, 7, 9, 10} : IsDigit(Ch(s, i))
    /\ Ch(s, 5) = "-" /\ Ch(s, 8) = "-"

\* is_valid_time: re.match(r"^(0[0-9]|1[0-9]|2[0-3]):([0-5][0-9])$", time_str)
IsValidTime(s) ==
    /\ Len(s) = 5
    /\ \/ Ch(s, 1) \in {"0", "1"} /\ IsDigit(Ch(s, 2))
       \/ Ch(s, 1) = "2" /\ Ch(s, 2) \in {"0", "1", "2", "3"}
    /\ Ch(s, 3) = ":"
    /\ Ch(s, 4) \in {"0", "1", "2", "3", "4", "5"} /\ IsDigit(Ch(s, 5))

\* `key in d`
Has(d, key) == key \in DOMAIN d

\* Every combination of one part out of each of two sets of dict parts
Join(A, B) == {a @@ b : a \in A, b \in B}

\* The values a dict key takes, the key being absent as well
Optional(key, values) == {EmptyDict} \cup {(key :> v) : v \in values}

\* Recurrence rules a caller passes.  Integer fields hold integers and list
\* fields hold lists of strings; a key is present or absent.
RecurrenceRules ==
    Join(Optional("frequency", {"", "DAILY", "WEEKLY", "MONTHLY", "YEARLY",
                                "HOURLY", "daily"}),
    Join(Optional("interval", {1}),
    Join(Optional("start_time", {"08:00", "8:00"}),
    Join(Optional("by_day", {<<>>, <<"MO">>, <<"MO", "WE">>, <<"XX">>}),
    Join(Optional("by_set_pos", {1, 6}),
    Join(Optional("by_month", {12}),
    Join(Optional("by_month_day", {32}),
    Join(Optional("excluded_dates", {<<"2025-01-01", "bad">>}),
    Join(Optional("until", {"2025-12-31"}),
         Optional("count", {5}))))))))))

\* validate_recurrence_rule(rr): the exception it raises, None when the rule
\* is accepted
ValidateRecurrenceRule(rr) ==
    LET frequency == rr["frequency"] IN
    IF RequireNonEmptyStr(DictGet(rr, "frequency", "")) # None
    THEN RequireNonEmptyStr(DictGet(rr, "frequency", ""))
    ELSE IF ~Has(rr, "interval") THEN "ValueError"
    ELSE IF RequireNonEmptyStr(DictGet(rr, "start_time", "")) # None
    THEN RequireNonEmptyStr(DictGet(rr, "start_time", ""))
    ELSE IF ~IsValidTime(rr["start_time"]) THEN "ValueError"
    ELSE IF Has(rr, "by_day") /\
            \/ \E i \in 1..Len(rr["by_day"]) : Blank(rr["by_day"][i])
            \/ frequency = "DAILY"
            \/ frequency = "WEEKLY" /\ Len(rr["by_day"]) < 1
            \/ frequency \in {"MONTHLY", "YEARLY"} /\
                    (~Has(rr, "by_set_pos") \/ Len(rr["by_day"]) # 1)
            \/ ~(Range(rr["by_day"]) \subseteq WEEKDAY_VALUES)
    THEN "ValueError"
    ELSE IF Has(rr, "by_month") /\
            (~(1 <= rr["by_month"] /\ rr["by_month"] <= 12) \/ frequency # "YEARLY")
    THEN "ValueError"
    ELSE IF Has(rr, "by_month_day") /\
            \/ frequency \notin {"MONTHLY", "YEARLY"}
            \/ Has(rr, "by_set_pos")
            \/ ~(1 <= rr["by_month_day"] /\ rr["by_month_day"] <= 31)
    THEN "ValueError"
    ELSE IF Has(rr, "by_set_pos") /\
            \/ ~(1 <= rr["by_set_pos"] /\ rr["by_set_pos"] <= 5)
            \/ frequency \notin {"MONTHLY", "YEARLY"}
    THEN "ValueError"
    ELSE IF Has(rr, "excluded_dates") /\
            \E i \in 1..Len(rr["excluded_dates"]) : ~IsValidDate(rr["excluded_dates"][i])
    THEN "ValueError"
    ELSE IF Has(rr, "until") /\ ~IsValidDate(rr["until"]) THEN "ValueError"
    ELSE IF Has(rr, "count") /\ Has(rr, "until") THEN "ValueError"
    ELSE None

ValidateRecurrenceRuleOp ==
    /\ wc.op = "none"
    /\ \E rr \in RecurrenceRules :
        wc' = [op |-> "validate_recurrence_rule", args |-> rr,
               raised |-> ValidateRecurrenceRule(rr), effects |-> <<>>,
               out |-> EmptyDict]
    /\ UNCHANGED tokVars
    /\ UNCHANGED reqVars
    /\ UNCHANGED pagVars
    /\ UNCHANGED concVars

\* Recurrence rules inside a door exception: an accepted and a rejected one
ValidRule ==
    ("frequency" :> "DAILY") @@ ("interval" :> 1) @@ ("start_time" :> "08:00")
NestedRules == {ValidRule, ("frequency" :> "DAILY")}

\* The double-badge fields of a door exception
DoubleBadgeParts ==
    {EmptyDict,
     ("double_badge" :> TRUE),
     ("double_badge" :> TRUE) @@ ("double_badge_group_ids" :> <<"g1">>),
     ("double_badge" :> FALSE) @@ ("double_badge_group_ids" :> <<"g1">>),
     ("double_badge_group_ids" :> <<"g1">>)}

\* Door exceptions a caller passes.  Flags are booleans, times are strings
\* or None; a key is present or absent.
DoorExceptions ==
    Join(Optional("date", {"2025-01-01", "2025-1-1"}),
    Join(Optional("door_status", DOOR_STATUS_VALUES \cup {"access_controlled", "OPEN"}),
    Join(Optional("all_day_default", BOOLEAN),
    Join(Optional("start_time", {None, "", "00:00", "10:00", "24:00"}),
    Join(Optional("end_time", {None, "", "23:59", "11:00"}),
    Join(DoubleBadgeParts,
    Join(Optional("first_person_in", {TRUE}),
         Optional("recurrence_rule", NestedRules))))))))

\* Lines 137-155 of validate_door_exception: the all-day rules, or the
\* required start and end time
ValidateTimes(exc) ==
    IF DictGet(exc, "all_day_default", FALSE)
    THEN IF exc["door_status"] # "access_controlled" THEN "ValueError"
         ELSE IF Has(exc, "start_time") /\ exc["start_time"] \notin {None, "", "00:00"}
         THEN "ValueError"
         ELSE IF Has(exc, "end_time") /\ exc["end_time"] \notin {None, "", "23:59"}
         THEN "ValueError"
         ELSE None
    ELSE IF ~Has(exc, "start_time") THEN "ValueError"
         ELSE IF RequireNonEmptyStr(exc["start_time"]) # None
         THEN RequireNonEmptyStr(exc["start_time"])
         ELSE IF ~IsValidTime(exc["start_time"]) THEN "ValueError"
         ELSE IF ~Has(exc, "end_time") THEN "ValueError"
         ELSE IF RequireNonEmptyStr(exc["end_time"]) # None
         THEN RequireNonEmptyStr(exc["end_time"])
         ELSE IF ~IsValidTime(exc["end_time"]) THEN "ValueError"
         ELSE None

\* validate_door_exception(exc) of access_door_exceptions.py: the exception
\* it raises, None when the door exception is accepted
ValidateDoorException(exc) ==
    IF ~Has(exc, "date") THEN "ValueError"
    ELSE IF RequireNonEmptyStr(exc["date"]) # None
    THEN RequireNonEmptyStr(exc["date"])
    ELSE IF ~IsValidDate(exc["date"]) THEN "ValueError"
    ELSE IF ~Has(exc, "door_status") THEN "ValueError"
    ELSE IF RequireNonEmptyStr(exc["door_status"]) # None
    THEN RequireNonEmptyStr(exc["door_status"])
    ELSE IF exc["door_status"] \notin DOOR_STATUS_VALUES THEN "ValueError"
    ELSE IF DictGet(exc, "double_badge", FALSE) /\ ~Has(exc, "double_badge_group_ids")
    THEN "ValueError"
    ELSE IF Has(exc, "double_badge_group_ids") /\
            (~Has(exc, "double_badge") \/ DictGet(exc, "double_badge", FALSE))
    THEN "ValueError"
    ELSE IF ValidateTimes(exc) # None THEN ValidateTimes(exc)
    ELSE IF DictGet(exc, "first_person_in", FALSE) /\
            ~Has(exc, "first_person_in_group_ids")
    THEN "ValueError"
    ELSE IF Has(exc, "recurrence_rule")
    THEN ValidateRecurrenceRule(exc["recurrence_rule"])
    ELSE None

ValidateDoorExceptionOp ==
    /\ wc.op = "none"
    /\ \E exc \in DoorExceptions :
        wc' = [op |-> "validate_door_exception", args |-> exc,
               raised |-> ValidateDoorException(exc), effects |-> <<>>,
               out |-> EmptyDict]
    /\ UNCHANGED tokVars
    /\ UNCHANGED reqVars
    /\ UNCHANGED pagVars
    /\ UNCHANGED concVars

\* validate_door_exception(exc) of access_control.py, the copy the client
\* methods call: as the one above except for the test applied when
\* double_badge_group_ids is present (line 2384)
ValidateDoorExceptionAccessControl(exc) ==
    IF ~Has(exc, "date") THEN "ValueError"
    ELSE IF RequireNonEmptyStr(exc["date"]) # None
    THEN RequireNonEmptyStr(exc["date"])
    ELSE IF ~IsValidDate(exc["date"]) THEN "ValueError"
    ELSE IF ~Has(exc, "door_status") THEN "ValueError"
    ELSE IF RequireNonEmptyStr(exc["door_status"]) # None
    THEN RequireNonEmptyStr(exc["door_status"])
    ELSE IF exc["door_status"] \notin DOOR_STATUS_VALUES THEN "ValueError"
    ELSE IF DictGet(exc, "double_badge", FALSE) /\ ~Has(exc, "double_badge_group_ids")
    THEN "ValueError"
    ELSE IF Has(exc, "double_badge_group_ids") /\
            (~Has(exc, "double_badge") \/ exc["double_badge"] = FALSE)
    THEN "ValueError"
    ELSE IF ValidateTimes(exc) # None THEN ValidateTimes(exc)
    ELSE IF DictGet(exc, "first_person_in", FALSE) /\
            ~Has(exc, "first_person_in_group_ids")
    THEN "ValueError"
    ELSE IF Has(exc, "recurrence_rule")
    THEN ValidateRecurrenceRule(exc["recurrence_rule"])
    ELSE None

ValidateDoorExceptionAccessControlOp ==
    /\ wc.op = "none"
    /\ \E exc \in DoorExceptions :
        wc' = [op |-> "access_control.validate_door_exception", args |-> exc,
               raised |-> ValidateDoorExceptionAccessControl(exc),
               effects |-> <<>>, out |-> EmptyDict]
    /\ UNCHANGED tokVars
    /\ UNCHANGED reqVars
    /\ UNCHANGED pagVars
    /\ UNCHANGED concVars

\* Arguments of add_access_schedule_event_to_access_level
AccessLevelIdArgs == {"", "level1"}
ScheduleTimeArgs == {"09:00", "9:00"}
WeekdayArgs == WEEKDAY_VALUES \cup {"", "mo", "MONDAY", "XX"}

\* add_access_schedule_event_to_access_level(access_level_id, start_time,
\* end_time, weekday)
AddAccessScheduleEventCall(access_level_id, start_time, end_time, weekday) ==
    IF access_level_id = ""
    THEN Outcome("ValueError", <<>>, EmptyDict)
    ELSE IF ~IsValidTime(start_time) \/ ~IsValidTime(end_time)
    THEN Outcome("ValueError", <<>>, EmptyDict)
    ELSE IF weekday \notin WEEKDAY_VALUES
    THEN Outcome("ValueError", <<>>, EmptyDict)
    ELSE Outcome(None, <<"request">>,
                 [door_status |-> "access_granted", start_time |-> start_time,
                  end_time |-> end_time, weekday |-> weekday])

AddAccessScheduleEvent ==
    /\ wc.op = "none"
    /\ \E access_level_id \in AccessLevelIdArgs, start_time \in ScheduleTimeArgs,
          end_time \in ScheduleTimeArgs, weekday \in WeekdayArgs :
        LET r == AddAccessScheduleEventCall(access_level_id, start_time,
                                            end_time, weekday) IN
        wc' = [op |-> "add_access_schedule_event_to_access_level",
               args |-> [access_level_id |-> access_level_id,
                         start_time |-> start_time, end_time |-> end_time,
                         weekday |-> weekday],
               raised |-> r.raised, effects |-> r.effects, out |-> r.out]
    /\ UNCHANGED tokVars
    /\ UNCHANGED reqVars
    /\ UNCHANGED pagVars
    /\ UNCHANGED concVars

\* CSV files a caller names: a path with no file behind it, or a file with
\* its rows, the header row first (no rows: an empty file)
CsvFiles ==
    {[exists |-> FALSE, rows |-> <<>>]} \cup
    {[exists |-> TRUE, rows |-> r] :
        r \in {<<>>,
               << <<"License Plate", "Name">> >>,
               << <<"Name", "License Plate">>, <<"ABC123", "Ann">> >>,
               << <<"License Plate">> >>,
               << <<"License Plate">>, <<"ABC123">> >>,
               << <<"Plate", "Name">> >>,
               << <<"License Plate", "License Plate">> >>,
               << <<"License Plate", "Name", "Notes">> >>}}

\* verify_csv_columns(file_path, expected_headers_list): True or False, it
\* raises nothing
VerifyCsvColumns(file, expected_headers_list) ==
    IF ~file.exists THEN FALSE
    ELSE IF Len(expected_headers_list) = 0 THEN FALSE
    ELSE IF Len(file.rows) = 0 THEN FALSE
    ELSE IF Len(file.rows[1]) # Len(expected_headers_list) THEN FALSE
    ELSE Range(file.rows[1]) = Range(expected_headers_list)

\* The columns create_bulk_lpois and delete_bulk_lpois name
BulkLpoiColumns(op) ==
    IF op = "create_bulk_lpois" THEN <<"License Plate", "Name">>
    ELSE <<"License Plate">>

\* CamerasClient.create_bulk_lpois(filename) / delete_bulk_lpois(filename):
\* verify_csv_columns is called and its result dropped, then the file is
\* opened and posted (create) or sent with delete
BulkLpoisCall(op, file) ==
    LET verified == VerifyCsvColumns(file, BulkLpoiColumns(op)) IN
    IF ~file.exists
    THEN Outcome("FileNotFoundError", <<"verify_csv_columns", "open">>,
                 EmptyDict)
    ELSE Outcome(None, <<"verify_csv_columns", "open", "request">>,
                 [method |-> IF op = "create_bulk_lpois" THEN "post" ELSE "delete",
                  headers |-> ("accept" :> "application/json"),
                  files |-> TRUE])

CreateBulkLpois ==
    /\ wc.op = "none"
    /\ \E file \in CsvFiles :
        LET r == BulkLpoisCall("create_bulk_lpois", file) IN
        wc' = [op |-> "create_bulk_lpois", args |-> [file |-> file],
               raised |-> r.raised, effects |-> r.effects, out |-> r.out]
    /\ UNCHANGED tokVars
    /\ UNCHANGED reqVars
    /\ UNCHANGED pagVars
    /\ UNCHANGED concVars

DeleteBulkLpois ==
    /\ wc.op = "none"
    /\ \E file \in CsvFiles :
        LET r == BulkLpoisCall("delete_bulk_lpois", file) IN
        wc' = [op |-> "delete_bulk_lpois", args |-> [file |-> file],
               raised |-> r.raised, effects |-> r.effects, out |-> r.out]
    /\ UNCHANGED tokVars
    /\ UNCHANGED reqVars
    /\ UNCHANGED pagVars
    /\ UNCHANGED concVars

\* Arguments of BaseClient(api_key, token_manager, request_manager)
ApiKeyArgs == {None, "", " ", "key"}
TokenManagerArgs == {None, "token_manager"}
RequestManagerArgs == {None, "request_manager"}

\* BaseClient.__init__(api_key, token_manager, request_manager),
\* default_available being whether get_default_request_manager() returns
\* (VERKADA_API_KEY is set) or raises RuntimeError.  The result holds the
\* client's _request_manager.
BaseClientInit(api_key, token_manager, request_manager, default_available) ==
    LET has_key == Truthy(api_key)
        has_tm == token_manager # None
        has_rm == request_manager # None
    IN
    IF has_rm /\ (has_key \/ has_tm)
    THEN Outcome("ValueError", <<>>, EmptyDict)
    ELSE IF has_tm /\ has_key
    THEN Outcome("ValueError", <<>>, EmptyDict)
    ELSE IF has_tm
    THEN Outcome(None, <<>>,
                 ("_request_manager" :> "VerkadaRequestManager(token_manager)"))
    ELSE IF has_key /\ Blank(api_key)
    THEN Outcome("ValueError", <<>>, EmptyDict)
    ELSE IF has_key
    THEN Outcome(None, <<>>,
                 ("_request_manager" :> "VerkadaRequestManager(api_key)"))
    ELSE \* lines 64-71, reached with or without a request_manager
         IF default_available
         THEN Outcome(None, <<"get_default_request_manager">>,
                      ("_request_manager" :> "default_request_manager"))
         ELSE Outcome("RuntimeError", <<"get_default_request_manager">>,
                      IF has_rm THEN ("_request_manager" :> request_manager)
                      ELSE EmptyDict)

NewBaseClient ==
    /\ wc.op = "none"
    /\ \E api_key \in ApiKeyArgs, token_manager \in TokenManagerArgs,
          request_manager \in RequestManagerArgs, default_available \in BOOLEAN :
        LET r == BaseClientInit(api_key, token_manager, request_manager,
                                default_available) IN
        wc' = [op |-> "BaseClient",
               args |-> [api_key |-> api_key, token_manager |-> token_manager,
                         request_manager |-> request_manager,
                         default_available |-> default_available],
               raised |-> r.raised, effects |-> r.effects, out |-> r.out]
    /\ UNCHANGED tokVars
    /\ UNCHANGED reqVars
    /\ UNCHANGED pagVars
    /\ UNCHANGED concVars

\* get_default_token_manager(): the module's default_token_manager, built at
\* import only when VERKADA_API_KEY is set; RuntimeError when it is None
GetDefaultTokenManagerCall(default_available) ==
    IF default_available
    THEN Outcome(None, <<"get_default_token_manager">>,
                 ("token_manager" :> "default_token_manager"))
    ELSE Outcome("RuntimeError", <<"get_default_token_manager">>, EmptyDict)

GetDefaultTokenManager ==
    /\ wc.op = "none"
    /\ \E default_available \in BOOLEAN :
        LET r == GetDefaultTokenManagerCall(default_available) IN
        wc' = [op |-> "get_default_token_manager",
               args |-> [default_available |-> default_available],
               raised |-> r.raised, effects |-> r.effects, out |-> r.out]
    /\ UNCHANGED tokVars
    /\ UNCHANGED reqVars
    /\ UNCHANGED pagVars
    /\ UNCHANGED concVars

\* VerkadaRequestManager.__init__(token_manager, api_key).  Line 43 asks for
\* the default token manager whenever no token_manager is passed, before
\* api_key is looked at.
RequestManagerInit(token_manager, api_key, default_available) ==
    LET has_key == Truthy(api_key)
        has_tm == token_manager # None
        d == GetDefaultTokenManagerCall(default_available)
        asked == IF has_tm THEN <<>> ELSE d.effects
    IN
    IF ~has_tm /\ d.raised # None
    THEN Outcome(d.raised, asked, EmptyDict)
    ELSE IF has_tm /\ has_key
    THEN Outcome("ValueError", asked, EmptyDict)
    ELSE IF has_tm
    THEN Outcome(None, asked, ("token_manager" :> token_manager))
    ELSE IF has_key /\ Blank(api_key)
    THEN Outcome("ValueError", asked, EmptyDict)
    ELSE IF has_key
    THEN Outcome(None, asked, ("token_manager" :> "VerkadaTokenManager(api_key)"))
    ELSE Outcome(None, asked, d.out)

NewRequestManager ==
    /\ wc.op = "none"
    /\ \E api_key \in ApiKeyArgs, token_manager \in TokenManagerArgs,
          default_available \in BOOLEAN :
        LET r == RequestManagerInit(token_manager, api_key, default_available) IN
        wc' = [op |-> "VerkadaRequestManager",
               args |-> [api_key |-> api_key, token_manager |-> token_manager,
                         default_available |-> default_available],
               raised |-> r.raised, effects |-> r.effects, out |-> r.out]
    /\ UNCHANGED tokVars
    /\ UNCHANGED reqVars
    /\ UNCHANGED pagVars
    /\ UNCHANGED concVars

\* get_default_request_manager():
\* VerkadaRequestManager(token_manager=get_default_token_manager())
GetDefaultRequestManagerCall(default_available) ==
    LET d == GetDefaultTokenManagerCall(default_available) IN
    IF d.raised # None THEN d
    ELSE LET r == RequestManagerInit(d.out["token_manager"], None,
                                     default_available) IN
         Outcome(r.raised, d.effects \o r.effects, r.out)

GetDefaultRequestManager ==
    /\ wc.op = "none"
    /\ \E default_available \in BOOLEAN :
        LET r == GetDefaultRequestManagerCall(default_available) IN
        wc' = [op |-> "get_default_request_manager",
               args |-> [default_available |-> default_available],
               raised |-> r.raised, effects |-> r.effects, out |-> r.out]
    /\ UNCHANGED tokVars
    /\ UNCHANGED reqVars
    /\ UNCHANGED pagVars
    /\ UNCHANGED concVars

\* State after VerkadaTokenManager.__init__ / VerkadaRequestManager.__init__
Init ==
    /\ now = 0
    /\ token_lifetime_minutes \in Lifetimes
    /\ token = None
    /\ token_expiry = NoExpiry
    /\ acquired_at = NoExpiry
    /\ gt = NoCall
    /\ max_retries \in 0..MaxRetries
    /\ rq_pc = "idle"
    /\ rq = IdleRequest
    /\ pg_pc = "idle"
    /\ pg = IdlePagination
    /\ wc = NoWrapperCall
    /\ th = [t \in Threads |-> IdleThread]
    /\ fetches_done = {}

NextTok == GetToken \/ Tick

SpecTok == Init /\ [][NextTok]_vars

NextReq == SendRequest \/ Respond \/ EndCall \/ Tick

SpecReq == Init /\ [][NextReq]_vars

NextPag == StartIteration \/ FetchPage \/ YieldItem \/ EndPage

InitPag == Init /\ max_retries = DEFAULT_MAX_TRIES /\ token_lifetime_minutes = 30

SpecPag == InitPag /\ [][NextPag]_vars

NextWrap ==
    \/ GetUser \/ CreateUser \/ UploadProfilePhoto \/ GetAccessEvents \/ GetAuditLogs
    \/ GetGuestVisits \/ SearchHelixEvents \/ AddAccessScheduleEvent
    \/ ValidateRecurrenceRuleOp \/ ValidateDoorExceptionOp
    \/ ValidateDoorExceptionAccessControlOp \/ NewBaseClient
    \/ GetDefaultTokenManager \/ NewRequestManager \/ GetDefaultRequestManager
    \/ ClientRequest \/ CreateBulkLpois \/ DeleteBulkLpois
    \/ WrapperReturn

SpecWrap == InitPag /\ [][NextWrap]_vars

\* One get_all_audit_logs iteration at a time, the clock running meanwhile
NextAudit == StartAllAuditLogs \/ FetchAuditLogsPage \/ WrapperReturn \/ Tick

SpecAudit == InitPag /\ [][NextAudit]_vars

NextConc ==
    \/ EnterGetToken \/ FetchInThread \/ StoreToken \/ StoreExpiry
    \/ LeaveGetToken \/ Tick

SpecConc == InitPag /\ [][NextConc]_vars

(***************************************************************************)
(* Claims about VerkadaTokenManager                                        *)
(***************************************************************************)

\* The credential of the last successful fetch is still valid at time t:
\* t < acquired_at + lifetime - refresh buffer
StillValid(t) ==
    /\ acquired_at # NoExpiry
    /\ t < acquired_at + token_lifetime_minutes * 60 - refresh_buffer_seconds

\* C1: after a successful fetch at time A, a get_token() call made while
\* now < A + lifetime - buffer returns the cached token and makes no call to
\* the token endpoint; a call made once that no longer holds (or before any
\* fetch) makes exactly one token-endpoint call and, when that call
\* succeeds, caches its result and returns it.
C1_CachedUntilRefreshDue ==
    [][gt'.op = "get_token" =>
        IF StillValid(now)
        THEN /\ gt'.calls = 0
             /\ gt'.raised = None
             /\ gt'.ret = token
             /\ token' = token /\ token_expiry' = token_expiry
        ELSE /\ gt'.calls = 1
             /\ gt'.raised = None =>
                    /\ gt'.ret \in Tokens
                    /\ token' = gt'.ret
                    /\ acquired_at' = now]_vars

\* C1 witness: a get_token() call served from the cache some time after the
\* fetch
C1_Witness ==
    /\ gt.op = "get_token" /\ gt.calls = 0 /\ gt.ret = token
    /\ acquired_at # NoExpiry /\ now > acquired_at

C24_FailureLeavesCacheAndIsNotCached ==
    [][/\ (gt'.op = "get_token" /\ gt'.raised # None) =>
            /\ token' = token /\ token_expiry' = token_expiry
            /\ \A t \in now..MaxTime : ~CacheValid(token', token_expiry', t)
       /\ (gt.op = "get_token" /\ gt.raised # None /\ gt'.op = "get_token") =>
            gt'.calls = 1]_vars

\* C24 witness: the refresh of a cached token failed with a network error
\* or a non-2xx status; the token fetched earlier is still the cached one
C24_Witness ==
    /\ gt.op = "get_token" /\ gt.fetch = "request_exception"
    /\ gt.raised = "RuntimeError"
    /\ token \in Tokens /\ token_expiry = acquired_at + token_lifetime_minutes * 60
    /\ now > acquired_at

\* C28: whatever token_lifetime_minutes is configured, a get_token() call
\* made right after a successful fetch, before any time has passed, is
\* served from the cache: it makes no call to the token endpoint and
\* returns the token just fetched.
C28_FreshTokenServedFromCache ==
    [][(/\ gt.op = "get_token" /\ gt.raised = None /\ gt.calls = 1
        /\ gt.at = now /\ now' = now
        /\ gt'.op = "get_token") =>
        (gt'.calls = 0 /\ gt'.ret = gt.ret)]_vars

\* C25: at every point, also while two threads are inside get_token() on a
\* stale manager, the stored token and the stored expiry are either both
\* unset or both come from the same successful fetch.
C25_CredentialReplacedAsAUnit ==
    \/ token = None /\ token_expiry = NoExpiry
    \/ <<token, token_expiry>> \in fetches_done

(***************************************************************************)
(* Claims about VerkadaRequestManager._send_request                        *)
(***************************************************************************)

\* C2: a request sent with the SDK's own auth header carries the token
\* get_token() returned for that call, and that token was either fetched
\* during the call or still valid (now < acquired_at + lifetime - buffer)
\* when it was returned; the header is not changed between attempts.
C2_SentCredentialValid ==
    [][/\ (rq_pc = "idle" /\ rq_pc' = "sending"
            /\ AUTH \notin DOMAIN rq'.caller_headers) =>
            /\ rq'.headers[AUTH] = gt'.ret
            /\ rq'.headers[AUTH] = token'
            /\ \/ gt'.calls > 0 /\ acquired_at' = now
               \/ gt'.calls = 0 /\ token' = token /\ StillValid(now)
       /\ (rq_pc = "sending" /\ rq_pc' = "sending") =>
            rq'.headers = rq.headers]_vars

\* C2 witness: a request that was sent, and answered, with a token served
\* from the cache some time after it was fetched
C2_Witness ==
    /\ rq_pc = "returned" /\ rq.attempts >= 1
    /\ AUTH \notin DOMAIN rq.caller_headers
    /\ rq.headers[AUTH] = token
    /\ gt.op = "get_token" /\ gt.calls = 0 /\ now > acquired_at

\* Every response of the call so far was a 429 or a 5xx
AllErrors == rq.attempts > 0 /\ rq.all_err

\* C8 as claimed: with max_retries = n >= 1, a call answered only by 429 /
\* 5xx responses makes at most n attempts in total and returns no value.
C8_AtMostNAttempts ==
    (max_retries >= 1 /\ AllErrors) =>
        (rq.attempts <= max_retries /\ rq_pc # "returned")

\* C8 amended: a call makes at most max_retries + 1 attempts (the first
\* attempt and max_retries retries); a call answered only by 429 / 5xx
\* responses never returns a value and has raised once it has made
\* max_retries + 1 attempts.
C8_AtMostNPlusOneAttempts ==
    /\ rq.attempts <= max_retries + 1
    /\ AllErrors => (rq_pc \in {"sending", "raised"} /\ rq.value = None)
    /\ (AllErrors /\ rq.attempts = max_retries + 1) =>
            (rq_pc = "raised" /\ rq.exc \in {"RetryError", "HTTPError"})

\* C8 witness: the default max_retries, every response a 503, the call has
\* raised after its fourth attempt
C8_Witness ==
    /\ max_retries = DEFAULT_MAX_TRIES
    /\ AllErrors /\ rq.status = 503
    /\ rq.attempts = DEFAULT_MAX_TRIES + 1
    /\ rq_pc = "raised" /\ rq.exc = "RetryError"

\* C9 as claimed: while retries remain a response is retried exactly when
\* its status is 429 or any 5xx, whatever the verb.
C9_RetryOn429AndAny5xx ==
    (rq.attempts > 0 /\ rq.left > 0) =>
        (rq.retried <=> (rq.status = 429 \/ (500 <= rq.status /\ rq.status < 600)))

\* C9 amended: whatever the verb, while retries remain a response is
\* retried exactly when its status is 429, 500, 502, 503 or 504, or it is a
\* 413 carrying a Retry-After header; with no retry left nothing is retried.
C9_RetryOnForcelist ==
    /\ (rq.attempts > 0 /\ rq.left > 0) =>
            (rq.retried <=> \/ rq.status \in {429, 500, 502, 503, 504}
                            \/ rq.status = 413 /\ rq.has_retry_after)
    /\ (rq.attempts > 0 /\ rq.left = 0) => ~rq.retried
    /\ rq.retried <=> (rq_pc = "sending" /\ rq.attempts > 0)

\* C9 witness: a POST answered 503 is being retried
C9_Witness ==
    /\ rq.method = "post" /\ rq.status = 503 /\ rq.retried
    /\ rq_pc = "sending" /\ rq.attempts = 1

\* The last response was a 4xx other than 429
ClientError == rq.attempts > 0 /\ 400 <= rq.status /\ rq.status < 500 /\ rq.status # 429

\* C10 as claimed: a 4xx response other than 429 ends the call with an HTTP
\* error: it is not retried and no value is returned.
C10_ClientErrorRaises ==
    ClientError => (rq_pc = "raised" /\ rq.exc = "HTTPError" /\ ~rq.retried)

\* C10 amended: a 4xx response other than 429, unless it is a 413 carrying
\* a Retry-After header received while retries remain, ends the call with
\* an HTTP error: it is not retried and no value is returned.
C10_ClientErrorRaisesUnlessRetryAfter ==
    (ClientError /\ ~(rq.status = 413 /\ rq.has_retry_after /\ rq.left > 0)) =>
        (rq_pc = "raised" /\ rq.exc = "HTTPError" /\ ~rq.retried /\ rq.value = None)

\* C10 witness: a call whose only response was a 404 has raised HTTPError
C10_Witness ==
    /\ rq.status = 404 /\ rq.attempts = 1
    /\ rq_pc = "raised" /\ rq.exc = "HTTPError"

\* C11: the headers of a request are the default headers (accept,
\* content-type, auth) overridden key by key by the caller's headers; the
\* auth header is the caller's when the caller supplied one and otherwise
\* the value get_token() returned for that call.
C11_HeadersAreDefaultsOverridden ==
    [][(rq_pc = "idle" /\ rq_pc' = "sending") =>
        LET caller == rq'.caller_headers
            defaults == ("accept" :> "application/json") @@
                        ("content-type" :> "application/json") @@
                        (AUTH :> gt'.ret)
        IN
        /\ gt'.raised = None /\ gt'.ret \in Tokens
        /\ DOMAIN rq'.headers = {"accept", "content-type", AUTH} \cup DOMAIN caller
        /\ \A k \in DOMAIN rq'.headers :
                rq'.headers[k] = IF k \in DOMAIN caller THEN caller[k]
                                 ELSE defaults[k]
        /\ rq'.headers[AUTH] = IF AUTH \in DOMAIN caller THEN caller[AUTH]
                                ELSE gt'.ret]_vars

\* C11 witness: a request that was sent with the caller's own auth header in
\* place of the token, the other defaults untouched
C11_Witness ==
    /\ rq_pc = "sending" /\ rq.attempts = 0
    /\ AUTH \in DOMAIN rq.caller_headers
    /\ rq.headers[AUTH] = "caller-auth" /\ token \in Tokens
    /\ rq.headers["accept"] = "application/json"

\* C12: a request that is sent with file attachments carries no
\* `content-type: application/json` header.
C12_NoJsonContentTypeWithFiles ==
    (rq_pc = "sending" /\ rq.files) =>
        ~("content-type" \in DOMAIN rq.headers
            /\ rq.headers["content-type"] = "application/json")

\* The last response was a 3xx
Redirected == rq.attempts > 0 /\ 300 <= rq.status /\ rq.status < 400

\* C13 as claimed: a 3xx response is final: no follow-up request is made,
\* no error is raised and the body is returned, for every verb and for both
\* return_json settings.
C13_RedirectReturned ==
    Redirected =>
        /\ rq_pc = "returned" /\ rq.exc = None
        /\ rq.value = IF rq.return_json THEN "json" ELSE "content"

\* C13 amended: a 3xx response is final for every verb: no follow-up
\* request is made and no HTTP error is raised for it; with
\* return_json = false its raw body is returned, with return_json = true
\* its parsed body is returned when the body is JSON and a ValueError is
\* raised when it is not.
C13_RedirectFinal ==
    Redirected =>
        /\ rq_pc \in {"returned", "raised"} /\ ~rq.retried
        /\ rq.exc \notin {"HTTPError", "RetryError"}
        /\ IF rq.return_json /\ ~rq.json_body
           THEN rq_pc = "raised" /\ rq.exc = "ValueError" /\ rq.value = None
           ELSE /\ rq_pc = "returned" /\ rq.exc = None
                /\ rq.value = IF rq.return_json THEN "json" ELSE "content"

\* C13 witness: a DELETE with return_json = false answered 302 has returned
\* the raw body after one attempt
C13_Witness ==
    /\ rq.method = "delete" /\ ~rq.return_json
    /\ rq.status = 302 /\ rq.attempts = 1
    /\ rq_pc = "returned" /\ rq.value = "content"

(***************************************************************************)
(* Claims about iterate_paginated_results                                  *)
(***************************************************************************)

\* a is a prefix of b
IsPrefix(a, b) == Len(a) <= Len(b) /\ SubSeq(b, 1, Len(a)) = a

\* C3: for page responses that are JSON objects, the items yielded are at
\* every moment a prefix of the concatenation of the fetched pages' items
\* lists; an iteration that has ended normally has yielded exactly that
\* concatenation and its last response had a null or absent cursor (not
\* earlier); after a response with a null or absent cursor no page is
\* fetched (not later).
C3_ConcatenationUntilNullCursor ==
    /\ [](pg.all_dict =>
            /\ IsPrefix(pg.yielded, pg.expected)
            /\ pg_pc = "done" => (pg.yielded = pg.expected /\ pg.saw_end))
    /\ [][(pg.all_dict /\ pg.saw_end) => pg'.fetches = pg.fetches]_vars

\* C3 witness: three pages fetched, the third with a null cursor, and the
\* iteration has ended having yielded five items
C3_Witness ==
    /\ pg_pc = "done" /\ pg.all_dict /\ pg.fetches = 3
    /\ pg.yielded = <<"a", "b", "b", "a", "a">>
    /\ pg.next_page_token_from_response = None

\* C4: a page is fetched only when every item of the pages fetched before
\* has been yielded, the fetch itself yields nothing, and items are yielded
\* one at a time in the order of the response's list.
C4_LazyAndOrdered ==
    /\ [][pg'.fetches # pg.fetches =>
            /\ pg'.fetches = pg.fetches + 1
            /\ pg.yielded = pg.expected
            /\ pg'.yielded = pg.yielded]_vars
    /\ [][pg'.yielded # pg.yielded =>
            /\ pg'.fetches = pg.fetches
            /\ pg.idx < Len(pg.items)
            /\ pg'.yielded = Append(pg.yielded, pg.items[pg.idx + 1])
            /\ pg'.idx = pg.idx + 1
            /\ IsPrefix(pg'.yielded, pg.expected)]_vars

\* C4 witness: the second page has been fetched, after both items of the
\* first were yielded, and none of its items has been yielded yet
C4_Witness ==
    /\ pg_pc = "yield" /\ pg.fetches = 2 /\ pg.idx = 0
    /\ pg.items = <<"b", "a">>
    /\ pg.yielded = <<"a", "b">>

\* C5: when the page fetch raises, the generator raises that exception,
\* and from then on fetches nothing and yields nothing; what was yielded
\* before stays as it was.
C5_FetchExceptionPropagates ==
    /\ [](pg.last = "raise" => (pg_pc = "raised" /\ pg.exc = "fetch_exception"))
    /\ [][pg'.last = "raise" => pg'.yielded = pg.yielded]_vars
    /\ [][pg_pc = "raised" => (pg_pc' = "raised" /\ pg' = pg)]_vars

\* C5 witness: the fetch of the second page raised after the first page's
\* items were yielded
C5_Witness ==
    /\ pg_pc = "raised" /\ pg.exc = "fetch_exception"
    /\ pg.fetches = 2 /\ pg.yielded = <<"a", "b">>

\* The cursor key the claim describes: the one supplied, else the response
\* key that contains "token"
ClaimedNextTokenKey(arg, response) ==
    IF Truthy(arg) THEN arg
    ELSE LET token_keys == {k \in DOMAIN response : Contains(k, "token")} IN
         IF Cardinality(token_keys) = 1 THEN Only(token_keys) ELSE None

\* The items key the claim describes: the one supplied, else the one key
\* that remains once the cursor key is excluded
ClaimedItemsKey(arg, cursor_key, response) ==
    IF Truthy(arg) THEN arg
    ELSE IF cursor_key = None THEN None
    ELSE LET rest == (DOMAIN response) \ {cursor_key} IN
         IF Cardinality(rest) = 1 THEN Only(rest) ELSE None

\* C6: on the first response, a key that was not supplied is taken as the
\* claim describes (cursor key: the key containing "token"; items key: the
\* one key left once the cursor key is excluded), and when a key cannot be
\* determined this way a ValueError is raised before any item is yielded.
C6_KeysInferredOrError ==
    (pg.fetches = 1 /\ pg.last = "dict") =>
        LET c == ClaimedNextTokenKey(pg.next_token_key_arg, pg.response)
            i == ClaimedItemsKey(pg.items_key_arg, c, pg.response)
        IN IF c = None \/ i = None
           THEN pg_pc = "raised" /\ pg.exc = "ValueError" /\ pg.yielded = <<>>
           ELSE pg_pc # "raised" /\ pg.next_token_key = c /\ pg.items_key = i

\* C7: a page fetch that returns something other than a JSON object makes
\* the generator raise; the sequence does not end as if it were complete.
C7_NonDictRaises ==
    pg.last = "nondict" => (pg_pc = "raised" /\ pg.exc # None)

(***************************************************************************)
(* Claims about the wrapper operations and validators                      *)
(***************************************************************************)

\* The wrapper operations that end in a request
WrapperOps ==
    {"get_user", "upload_profile_photo", "get_access_events", "get_audit_logs",
     "get_guest_visits", "search_helix_events",
     "add_access_schedule_event_to_access_level"}

\* Both identifiers or neither were passed
ConflictingIds ==
    /\ wc.op \in {"get_user", "upload_profile_photo"}
    /\ (wc.args.user_id = None) <=> (wc.args.external_id = None)

\* A page_size outside 0..200 was passed
PageSizeOutOfRange ==
    /\ wc.op \in {"get_access_events", "get_audit_logs", "get_guest_visits"}
    /\ \E n \in wc.args.page_size : n < 0 \/ n > 200

\* A required string was empty, or a required list was
EmptyRequired ==
    \/ wc.op = "search_helix_events" /\
            (wc.args.event_type_uid = "" \/ wc.args.camera_ids = <<>>
                \/ "" \in Range(wc.args.camera_ids))
    \/ wc.op = "get_guest_visits" /\ wc.args.site_id = ""
    \/ wc.op = "add_access_schedule_event_to_access_level" /\
            wc.args.access_level_id = ""

\* An enum, time or event type value was invalid
InvalidValue ==
    \/ wc.op = "add_access_schedule_event_to_access_level" /\
            (wc.args.weekday \notin {"SU", "MO", "TU", "WE", "TH", "FR", "SA"}
                \/ wc.args.start_time = "9:00" \/ wc.args.end_time = "9:00")
    \/ wc.op = "get_access_events" /\ "door_kicked" \in Range(wc.args.event_type)
    \/ wc.op = "search_helix_events" /\
            (wc.args.start_time_ms > wc.args.end_time_ms \/ wc.args.start_time_ms = 0)

\* C15: a wrapper call whose argument fails local validation (conflicting
\* identifiers, out-of-range number, empty required string, invalid enum or
\* time value) raises the validation error having issued no HTTP request,
\* token fetch or file read; a call that raises a validation error has had
\* no effect at all, and no call issues more than one request.
C15_ValidationBeforeAnyEffect ==
    wc.op \in WrapperOps =>
        /\ (ConflictingIds \/ PageSizeOutOfRange \/ EmptyRequired \/ InvalidValue) =>
                wc.raised = "ValueError"
        /\ wc.raised = "ValueError" => wc.effects = <<>>
        /\ Cardinality({i \in 1..Len(wc.effects) : wc.effects[i] = "request"}) <= 1
        /\ wc.raised = None => wc.effects[Len(wc.effects)] = "request"

\* C15 witness: upload_profile_photo called with both identifiers has raised
\* ValueError without fetching the token or opening the photo
C15_Witness ==
    /\ wc.op = "upload_profile_photo"
    /\ wc.args.user_id = "u1" /\ wc.args.external_id = "e1"
    /\ wc.raised = "ValueError" /\ wc.effects = <<>>

\* C16: an operation that takes (user_id, external_id) raises ValueError,
\* forwarding nothing, when neither or both are passed; when exactly one is
\* passed no ValueError is raised and the parameters forwarded hold that
\* identifier under its key and do not hold the other key.
C16_ExactlyOneIdentifierForwarded ==
    wc.op \in {"get_user", "upload_profile_photo"} =>
        LET u == wc.args.user_id
            e == wc.args.external_id
        IN
        IF (u = None) <=> (e = None)
        THEN wc.raised = "ValueError" /\ "request" \notin Range(wc.effects)
        ELSE /\ wc.raised # "ValueError"
             /\ wc.raised = None =>
                    /\ "request" \in Range(wc.effects)
                    /\ IF u # None
                       THEN /\ "user_id" \in DOMAIN wc.out
                            /\ wc.out["user_id"] = u
                            /\ "external_id" \notin DOMAIN wc.out
                       ELSE /\ "external_id" \in DOMAIN wc.out
                            /\ wc.out["external_id"] = e
                            /\ "user_id" \notin DOMAIN wc.out

\* C16 witness: get_user called with the external id alone has forwarded
\* parameters holding external_id only
C16_Witness ==
    /\ wc.op = "get_user"
    /\ wc.args.user_id = None /\ wc.args.external_id = "e1"
    /\ wc.raised = None /\ DOMAIN wc.out = {"external_id"}

\* A door exception made of a valid date, a door_status, all_day_default =
\* true and possibly start_time and end_time
AllDayException ==
    /\ wc.op = "validate_door_exception"
    /\ {"date", "door_status", "all_day_default"} \subseteq DOMAIN wc.args
    /\ DOMAIN wc.args \subseteq
            {"date", "door_status", "all_day_default", "start_time", "end_time"}
    /\ wc.args["date"] = "2025-01-01"
    /\ wc.args["all_day_default"]

\* C17: validate_door_exception rejects an all-day exception whose
\* door_status is not the access-controlled status; with the
\* access-controlled status it accepts the exception exactly when start_time
\* is absent or "00:00" and end_time is absent or "23:59".
C17_AllDayDefaultRules ==
    AllDayException =>
        IF wc.args["door_status"] # "ACCESS_CONTROLLED"
        THEN wc.raised = "ValueError"
        ELSE wc.raised = None <=>
                /\ ("start_time" \notin DOMAIN wc.args \/ wc.args["start_time"] = "00:00")
                /\ ("end_time" \notin DOMAIN wc.args \/ wc.args["end_time"] = "23:59")

\* C18: each enum-validated field, the rest of the call being valid, is
\* accepted exactly when its value is one of the enum's values: the weekday
\* of a schedule event, the door_status of a door exception, the frequency
\* of a recurrence rule.
C18_EnumValuesExactlyAccepted ==
    /\ (/\ wc.op = "add_access_schedule_event_to_access_level"
        /\ wc.args.access_level_id = "level1"
        /\ wc.args.start_time = "09:00" /\ wc.args.end_time = "09:00") =>
            (wc.raised = None <=>
                wc.args.weekday \in {"SU", "MO", "TU", "WE", "TH", "FR", "SA"})
    /\ (/\ wc.op = "validate_door_exception"
        /\ DOMAIN wc.args = {"date", "door_status", "start_time", "end_time"}
        /\ wc.args["date"] = "2025-01-01"
        /\ wc.args["start_time"] = "10:00" /\ wc.args["end_time"] = "11:00") =>
            (wc.raised = None <=>
                wc.args["door_status"] \in
                    {"LOCKED", "CARD_AND_CODE", "ACCESS_CONTROLLED", "UNLOCKED"})
    /\ (/\ wc.op = "validate_recurrence_rule"
        /\ DOMAIN wc.args = {"frequency", "interval", "start_time"}
        /\ wc.args["start_time"] = "08:00") =>
            (wc.raised = None <=>
                wc.args["frequency"] \in {"DAILY", "WEEKLY", "MONTHLY", "YEARLY"})

\* The arguments other than page_size are valid
OtherArgsValid ==
    /\ wc.op = "get_access_events" => "door_kicked" \notin Range(wc.args.event_type)
    /\ wc.op = "get_guest_visits" =>
            /\ wc.args.site_id = "site1"
            /\ wc.args.time_range \in (0 - 86400)..86400

\* C19: get_access_events, get_guest_visits and get_audit_logs, their other
\* arguments being valid, accept an integer page_size exactly when
\* 0 <= page_size <= 200 and raise ValueError for any other, issuing no
\* request.
C19_PageSizeRange ==
    (/\ wc.op \in {"get_access_events", "get_guest_visits", "get_audit_logs"}
     /\ OtherArgsValid) =>
        \A n \in wc.args.page_size :
            IF 0 <= n /\ n <= 200
            THEN wc.raised = None /\ wc.effects = <<"request">>
            ELSE wc.raised = "ValueError" /\ wc.effects = <<>>

\* C19 witness: get_access_events called with page_size = 200 has issued its
\* request
C19_Witness ==
    /\ wc.op = "get_access_events" /\ wc.args.page_size = {200}
    /\ wc.raised = None /\ wc.effects = <<"request">>

\* C20: BaseClient(request_manager=rm), with no api_key and no
\* token_manager, is constructed without error, its request_manager is rm,
\* and the default request manager was not consulted.
C20_SuppliedRequestManagerUsed ==
    (/\ wc.op = "BaseClient"
     /\ wc.args.request_manager # None
     /\ wc.args.api_key = None /\ wc.args.token_manager = None) =>
        /\ wc.raised = None
        /\ wc.out["_request_manager"] = wc.args.request_manager
        /\ "get_default_request_manager" \notin Range(wc.effects)

(***************************************************************************)
(* Claims about credentials and configuration                              *)
(***************************************************************************)

\* The constructor call had an explicit credential: a non-blank api_key or
\* a token_manager, not both, and no request_manager
ExplicitCredential ==
    /\ wc.op \in {"VerkadaRequestManager", "BaseClient"}
    /\ \/ wc.args.api_key = "key" /\ wc.args.token_manager = None
       \/ wc.args.api_key = None /\ wc.args.token_manager # None
    /\ (wc.op = "BaseClient" => wc.args.request_manager = None)

\* C21: with no API key in the environment, constructing a
\* VerkadaRequestManager or a client from an explicit api_key or
\* token_manager succeeds, while get_default_token_manager() and
\* get_default_request_manager() raise RuntimeError.
C21_MissingKeyOnlyOnDefaultPaths ==
    /\ (ExplicitCredential /\ ~wc.args.default_available) => wc.raised = None
    /\ (wc.op \in {"get_default_token_manager", "get_default_request_manager"}
        /\ ~wc.args.default_available) => wc.raised = "RuntimeError"


(***************************************************************************)
(* Claims about the double-badge fields of a door exception                *)
(***************************************************************************)

\* A dict without the given keys
Without(d, keys) == [k \in DOMAIN d \ keys |-> d[k]]

\* The last call validated a door exception whose other fields pass: the
\* same exception without its double-badge fields is accepted by the copy
\* of validate_door_exception that was called
OtherFieldsAccepted ==
    LET rest == Without(wc.args, {"double_badge", "double_badge_group_ids"}) IN
    \/ wc.op = "validate_door_exception" /\ ValidateDoorException(rest) = None
    \/ /\ wc.op = "access_control.validate_door_exception"
       /\ ValidateDoorExceptionAccessControl(rest) = None

\* C22: validate_door_exception accepts double_badge = true with a list of
\* group ids, and rejects double_badge = true without group ids as well as
\* group ids with double_badge false or absent.
C22_DoubleBadgeNeedsGroupIdsAndViceVersa ==
    OtherFieldsAccepted =>
        ((wc.raised = None) <=>
         (DictGet(wc.args, "double_badge", FALSE) <=>
          Has(wc.args, "double_badge_group_ids")))


(***************************************************************************)
(* Claims about create_user                                                *)
(***************************************************************************)

\* C23: create_user called without an external_id raises ValueError and
\* sends no request.
C23_CreateUserNeedsExternalId ==
    (wc.op = "create_user" /\ wc.args.external_id = None) =>
        (wc.raised = "ValueError" /\ "request" \notin Range(wc.effects))


(***************************************************************************)
(* Claims about the credential a client's requests carry                   *)
(***************************************************************************)

\* C26: a client built from an explicit api_key or token_manager sends every
\* request, upload_profile_photo included, with a token of its own token
\* manager; the process-wide default credential is neither asked for nor
\* sent.
C26_OwnCredentialOnEveryRequest ==
    wc.op = "client_request" =>
        /\ "get_default_api_token" \notin Range(wc.effects)
        /\ wc.raised = None => wc.out[AUTH] = wc.args.own


(***************************************************************************)
(* Claims about caller-supplied auth headers                               *)
(***************************************************************************)

\* C27: when the caller passes its own auth header, _send_request sends the
\* request without get_token(): no call to the token endpoint is made, the
\* cached credential is untouched, and the request cannot fail for a token
\* fetch that failed.
C27_CallerAuthNeedsNoToken ==
    [][(rq_pc = "idle" /\ rq_pc' # "idle" /\ AUTH \in DOMAIN rq'.caller_headers) =>
        /\ gt'.calls = 0
        /\ token' = token /\ token_expiry' = token_expiry
        /\ rq_pc' = "sending"]_vars


(***************************************************************************)
(* Claims about the bulk LPOI uploads                                      *)
(***************************************************************************)

\* C29: create_bulk_lpois and delete_bulk_lpois send the upload request only
\* for a CSV file whose header row has the expected columns; for a file that
\* fails verify_csv_columns the caller gets an exception and no request is
\* sent.
C29_UploadOnlyVerifiedCsv ==
    (/\ wc.op \in {"create_bulk_lpois", "delete_bulk_lpois"}
     /\ ~VerifyCsvColumns(wc.args.file, BulkLpoiColumns(wc.op))) =>
        (wc.raised # None /\ "request" \notin Range(wc.effects))


(***************************************************************************)
(* Claims about get_all_audit_logs                                         *)
(***************************************************************************)

\* C30: during one get_all_audit_logs iteration every page request carries
\* the start_time and end_time of the first page request, also when the
\* caller left them unset and time passes between the page fetches.
C30_SameTimeWindowOnEveryPage ==
    wc.op = "get_all_audit_logs" =>
        \A i \in 1..Len(wc.out.requests) :
            /\ wc.out.requests[i].start_time = wc.out.requests[1].start_time
            /\ wc.out.requests[i].end_time = wc.out.requests[1].end_time

====
